---- MODULE Spec2Model ----
(***************************************************************************)
(* Verification model of the propagation engine of nis-backend:            *)
(*   - the scenario parameter resolver                                     *)
(*       backend/solving/flow_graph_solver.py                              *)
(*   - the flow weight-completion graph                                    *)
(*       backend/solving/graph/flow_graph.py                               *)
(*   - the scale graph, the observations by time period and the loop of    *)
(*     the solver over scenarios and periods                               *)
(*       backend/solving/flow_graph_solver.py                              *)
(***************************************************************************)
EXTENDS Integers, Sequences, FiniteSets, TLC

VARIABLES
    \* ---- parameter resolver: evaluate_parameters_for_scenario ----
    case_sensitive,               \* backend.case_sensitive, the global switch
    base_params,                  \* argument: list of Parameter (name, default_value)
    scenario_params,              \* argument: dictionary name -> expression
    pc,                           \* position inside evaluate_parameters_for_scenario
    result_params,                \* local dictionary
    known_params,                 \* local dictionary
    unknown_params,               \* local dictionary
    state,                        \* local State(), the variable context
    cycles,                       \* result of get_circular_dependencies
    previous_len_unknown_params,  \* local counter of the fixpoint loop
    passes,                       \* number of bodies of the while loop executed
    outcome,                      \* what the call gave back: a map or an exception
    \* ---- flow graph: FlowGraph ----
    direct_graph,                 \* FlowGraph._direct_graph
    reverse_graph,                \* FlowGraph._reverse_graph
    fpc,                          \* position inside get_computation_graph
    visited,                      \* nodes the current pass has visited
    issues,                       \* the list of issues of analyze_and_complete
    initial_direct,               \* the direct graph when get_computation_graph was called
    initial_reverse,              \* the reverse graph when get_computation_graph was called
    after_direct,                 \* the direct graph when the direct pass ended
    comp_graph,                   \* the computation graph returned, if any
    \* ---- scale graph: create_scales_graph, set_update_scales_graph ----
    scale_relations,              \* argument: list of scale relations
    spc,                          \* "create", "ready" (graph returned) or "failed"
    scale_graph,                  \* the nx.DiGraph of scales
    scale_before,                 \* the graph when the last set_update call began
    scale_params,                 \* argument params of the last set_update call
    beginning_values,             \* argument beginning_values of the last call
    scale_outcome,                \* what the last call gave back
    \* ---- the solver loop: flow_graph_solver ----
    global_parameters,            \* argument: list of Parameter
    scenarios,                    \* problem_statement.scenarios, in order
    time_observations,            \* time_observations_absolute: (label, observations), in order
    declared_relations,           \* the flow and scale relations of the registry
    relations,                    \* local nx.DiGraph of interface names, "weight" on edges
    spos,                         \* position inside flow_graph_solver
    scenario_idx,                 \* index of the scenario being solved
    period_idx,                   \* index of the time period being solved
    scenario_state,               \* local State() with the parameters of the scenario
    graph_params,                 \* local dict: interface name -> observed value
    compute_nodes,                \* local list: nodes without a value
    combinations_left,            \* combinations still to be computed
    unit_log,                     \* steps taken for the current (scenario, period)
    units_seen,                   \* (scenario, period) pairs whose flow graph was completed
    used_weights,                 \* (scenario, period) -> weights given to FlowGraph
    resolutions,                  \* scenario indices, one per call of the resolver
    solver_outcome,               \* what flow_graph_solver gave back
    \* ---- time periods: get_observations_by_time ----
    prd_observations,             \* the quantitative observations of the registry, in order
    tpos,                         \* position inside get_observations_by_time
    obs_by_time,                  \* local dict "observations": time -> list
    time_period_type,             \* local: result of get_type_from_all_time_periods
    time_outcome,                 \* what get_observations_by_time gave back
    \* ---- a second call of analyze_and_complete ----
    run,                          \* number of the call of analyze_and_complete
    assignments,                  \* set_update_scales_graph: times each node got a value
    first_run,                    \* the graphs and issues the first call left
    rerun_issues,                 \* the issues the second call returned
    \* ---- the computation graph in flow_graph_solver, lines 604-636 ----
    cg,                           \* comp_graph
    cg_params,                    \* graph_params: interface -> observed value
    cpos,                         \* position in lines 604-636
    cg_nodes,                     \* compute_nodes
    cg_conflicts,                 \* conflicts
    cg_combinations,              \* combinations, a list
    cg_calls,                     \* the calls of compute_values, with their results
    cg_outcome,                   \* what the lines gave back
    \* ---- registry of observables: musiasem_concepts_helper ----
    glb_idx,                      \* the registry: a list of (key, value) entries
    registry_objects,             \* the objects created so far, by ident
    factor_observations,          \* factor ident -> number of observations appended
    named_processors,             \* the processor names the calls have named
    value_calls,                  \* factor ident -> calls that gave it a value
    registry_calls,               \* number of calls made
    registry_raised               \* the last call raised an exception

param_vars == <<case_sensitive, base_params, scenario_params, pc, result_params,
                known_params, unknown_params, state, cycles,
                previous_len_unknown_params, passes, outcome>>

flow_vars == <<direct_graph, reverse_graph, fpc, visited, issues, initial_direct,
               initial_reverse, after_direct, comp_graph>>

scale_vars == <<scale_relations, spc, scale_graph, scale_before,
                scale_params, beginning_values, scale_outcome>>

solver_vars == <<global_parameters, scenarios, time_observations, declared_relations,
                 relations, spos, scenario_idx, period_idx, scenario_state,
                 graph_params, compute_nodes, combinations_left, unit_log, units_seen,
                 used_weights, resolutions, solver_outcome>>

time_vars == <<prd_observations, tpos, obs_by_time, time_period_type, time_outcome>>

rerun_vars == <<run, first_run, rerun_issues>>
scale_trace_vars == <<assignments>>
compute_vars == <<cg, cg_params, cpos, cg_nodes, cg_conflicts, cg_combinations,
                  cg_calls, cg_outcome>>

registry_vars == <<glb_idx, registry_objects, factor_observations, named_processors,
                   value_calls, registry_calls, registry_raised>>

\* The groups added for the later claims.
late_vars == <<rerun_vars, scale_trace_vars, compute_vars, registry_vars>>

\* Everything but the resolver and the flow graph.
ext_vars == <<scale_vars, solver_vars, time_vars, late_vars>>

vars == <<param_vars, flow_vars, ext_vars>>

-----------------------------------------------------------------------------
(* Bounds of the inputs                                                     *)

\* Longest list of base parameters.
MaxParams == 2
\* Largest number of entries of the scenario dictionary.
MaxOverrides == 1

\* Parameter names, in the order the declarations are listed.
NameOrder == <<"p1", "P1", "p2">>
Names == {NameOrder[i] : i \in 1..Len(NameOrder)}
\* Names an expression may reference ("p3" is declared nowhere).
RefNames == {"p1", "p2", "p3"}
AllNames == Names \cup RefNames

\* str.lower() on the names of the model.
lower(n) == IF n = "P1" THEN "p1" ELSE n

-----------------------------------------------------------------------------
(* Python values: None or a number                                          *)

None == [isNone |-> TRUE, v |-> 0]
Num(x) == [isNone |-> FALSE, v |-> x]
\* bool(value) of Python: None and 0 are falsy.
truthy(val) == ~val.isNone /\ val.v # 0

(* Expressions: what Parameter.default_value or a scenario entry holds.     *)
(*   "None"        no expression                                            *)
(*   "float"       a numeric literal                                        *)
(*   "str_number"  a string float() parses, such as "5"                     *)
(*   "str_expr"    a string such as "p1 * 2", parsed by string_to_ast       *)
(*   "dict"        the AST of "name * k": multipliers(h_var name, int k)    *)
NoExpr == [type |-> "None", value |-> 0, name |-> "", k |-> 0]
FloatLit(x) == [type |-> "float", value |-> x, name |-> "", k |-> 0]
StrNumber(x) == [type |-> "str_number", value |-> x, name |-> "", k |-> 0]
StrExpr(n, c) == [type |-> "str_expr", value |-> 0, name |-> n, k |-> c]
Ast(n, c) == [type |-> "dict", value |-> 0, name |-> n, k |-> c]

\* "not expression" of Python: None, 0.0 and the empty string are falsy.
falsy_expression(e) == e.type = "None" \/ (e.type = "float" /\ e.value = 0)

-----------------------------------------------------------------------------
(* Dictionaries made by create_dictionary: a native dict when case_sens,    *)
(* a CaseInsensitiveDict otherwise.  A dictionary is the sequence of its    *)
(* entries in insertion order; an entry holds the key of the store (the     *)
(* lowercased key of CaseInsensitiveDict._store), the key as written, and   *)
(* the value.                                                               *)

create_dictionary == << >>

store_key(cs, key) == IF cs THEN key ELSE lower(key)

\* Position of key in d, 0 when absent.
dict_index(cs, d, key) ==
    IF \E i \in 1..Len(d) : d[i].lk = store_key(cs, key)
    THEN CHOOSE i \in 1..Len(d) : d[i].lk = store_key(cs, key)
    ELSE 0

\* CaseInsensitiveDict.__contains__ / dict.__contains__
dict_contains(cs, d, key) == dict_index(cs, d, key) # 0

\* CaseInsensitiveDict.__getitem__ / dict.__getitem__
dict_getitem(cs, d, key) == d[dict_index(cs, d, key)].val

\* CaseInsensitiveDict.__setitem__ / dict.__setitem__: an existing entry is
\* replaced in place (the written key too), a new one goes last.
dict_setitem(cs, d, key, val) ==
    LET e == [lk |-> store_key(cs, key), key |-> key, val |-> val]
        i == dict_index(cs, d, key)
    IN IF i = 0 THEN Append(d, e) ELSE [d EXCEPT ![i] = e]

\* CaseInsensitiveDict.__delitem__ / dict.__delitem__
dict_delitem(cs, d, key) ==
    LET i == dict_index(cs, d, key)
    IN SubSeq(d, 1, i - 1) \o SubSeq(d, i + 1, Len(d))

\* CaseInsensitiveDict.__iter__ / dict.__iter__: the keys as written.
dict_iter(d) == [i \in 1..Len(d) |-> d[i].key]

\* MutableMapping.update(pairs): one __setitem__ per pair, in order.
RECURSIVE dict_update(_, _, _)
dict_update(cs, d, pairs) ==
    IF pairs = << >> THEN d
    ELSE dict_update(cs, dict_setitem(cs, d, pairs[1].key, pairs[1].val), Tail(pairs))

\* set.issubset(mapping): the mapping is iterated into a plain set of its
\* keys as written, and membership in that set is exact string equality.
issubset(params, d) == params \subseteq {d[i].key : i \in 1..Len(d)}

-----------------------------------------------------------------------------
(* State: the variable context of the evaluator (one default namespace,     *)
(* itself a dictionary made by create_dictionary).                          *)

state_get(cs, st, name) ==
    IF dict_contains(cs, st, name) THEN dict_getitem(cs, st, name) ELSE None

state_set(cs, st, name, value) == dict_setitem(cs, st, name, value)

state_update(cs, st, d) == dict_update(cs, st, d)

-----------------------------------------------------------------------------
(* ast_evaluator on the AST of "name * k"                                   *)
(*   h_var: obj = state.get(name); "if not obj" the name is unresolved      *)
(*   multipliers: the product when no operand has unresolved names, else    *)
(*   None                                                                   *)
ast_evaluator(cs, exp, st) ==
    LET obj == state_get(cs, st, exp.name)
        tmp1 == IF truthy(obj) THEN {} ELSE {exp.name}
    IN [value |-> IF tmp1 = {} THEN Num(obj.v * exp.k) ELSE None,
        unresolved_vars |-> tmp1]

\* evaluate_numeric_expression_with_parameters: (value, ast, params)
evaluate_numeric_expression_with_parameters(cs, expression, st) ==
    IF falsy_expression(expression)
    THEN [value |-> None, ast |-> NoExpr, params |-> {}]
    ELSE IF expression.type = "float" \/ expression.type = "str_number"
    THEN [value |-> Num(expression.value), ast |-> NoExpr, params |-> {}]
    ELSE LET ast == Ast(expression.name, expression.k)
             r == ast_evaluator(cs, ast, st)
         IN [value |-> r.value,
             ast |-> IF truthy(r.value) THEN NoExpr ELSE ast,
             params |-> r.unresolved_vars]

-----------------------------------------------------------------------------
(* get_circular_dependencies: the graph has one edge param2 -> param for    *)
(* every dependency param2 recorded for param; the result is the list of    *)
(* its simple cycles, each written from its first node in NameOrder.        *)

name_index(n) == CHOOSE i \in 1..Len(NameOrder) : NameOrder[i] = n

dependency_edges(parameters) ==
    UNION {{<<param2, parameters[i].key>> : param2 \in parameters[i].val.params} :
           i \in 1..Len(parameters)}

\* The sequences of distinct names: the candidate cycles.
distinct_seqs ==
    UNION {{q \in [1..n -> Names] : \A i, j \in 1..n : i # j => q[i] # q[j]} :
           n \in 1..Cardinality(Names)}

simple_cycles(edges) ==
    {c \in distinct_seqs :
        /\ \A i \in 1..Len(c) : <<c[i], c[(i % Len(c)) + 1]>> \in edges
        /\ \A i \in 2..Len(c) : name_index(c[1]) < name_index(c[i])}

get_circular_dependencies(parameters) == simple_cycles(dependency_edges(parameters))

-----------------------------------------------------------------------------
(* What a call gives back.                                                  *)

Running == [status |-> "running", exception |-> "", message |-> "",
            names |-> << >>, cycles |-> {}, map |-> << >>]
Returned(d) == [Running EXCEPT !.status = "returned", !.map = d]
Raised(exc, msg, names, cyc) ==
    [Running EXCEPT !.status = "raised", !.exception = exc, !.message = msg,
                    !.names = names, !.cycles = cyc]

\* Cells of result_params: an expression until it is overwritten by its value.
ExprCell(e) == [is_value |-> FALSE, expr |-> e, value |-> None]
ValueCell(v) == [is_value |-> TRUE, expr |-> NoExpr, value |-> v]

-----------------------------------------------------------------------------
(* evaluate_parameters_for_scenario, phase by phase                         *)

\* {p.name: p.default_value for p in base_params if p.default_value}
RECURSIVE defaults_of(_)
defaults_of(base) ==
    IF base = << >> THEN << >>
    ELSE IF falsy_expression(base[1].default_value)
    THEN defaults_of(Tail(base))
    ELSE <<[key |-> base[1].name, val |-> ExprCell(base[1].default_value)]>>
         \o defaults_of(Tail(base))

\* The items of the scenario dictionary, as pairs for update().
scenario_items(scen) ==
    [i \in 1..Len(scen) |-> [key |-> scen[i].key, val |-> ExprCell(scen[i].val)]]

\* "Create dictionary without evaluation", then "Overwrite with scenario
\* expressions or constants".
merge_params(cs, base, scen) ==
    dict_update(cs, dict_update(cs, create_dictionary, defaults_of(base)),
                scenario_items(scen))

\* The dependencies stored for a parameter that is not a constant.
stored_dependencies(cs, params) ==
    IF cs THEN params ELSE {lower(q) : q \in params}

\* "Now, evaluate ALL expressions": the for loop over result_params.items(),
\* from item i on, with an empty State.
RECURSIVE evaluate_all(_, _, _)
evaluate_all(cs, i, acc) ==
    IF i > Len(acc.result_params) THEN acc
    ELSE LET param == acc.result_params[i].key
             r == evaluate_numeric_expression_with_parameters(
                      cs, acc.result_params[i].val.expr, create_dictionary)
         IN IF ~truthy(r.value)
            THEN evaluate_all(cs, i + 1,
                    [acc EXCEPT !.unknown_params =
                        dict_setitem(cs, @, param,
                            [ast |-> r.ast,
                             params |-> stored_dependencies(cs, r.params)])])
            ELSE evaluate_all(cs, i + 1,
                    [acc EXCEPT
                        !.result_params = dict_setitem(cs, @, param, ValueCell(r.value)),
                        !.known_params = dict_setitem(cs, @, param, r.value)])

\* One body of the while loop: the for loop over list(unknown_params), from
\* key i of that list on.  acc.raised tells that the loop raised at acc.param.
RECURSIVE fixpoint_pass(_, _, _, _)
fixpoint_pass(cs, keys, known, acc) ==
    IF keys = << >> THEN acc
    ELSE LET param == keys[1]
             u == dict_getitem(cs, acc.unknown_params, param)
         IN IF ~issubset(u.params, known)
            THEN fixpoint_pass(cs, Tail(keys), known, acc)
            ELSE LET r == evaluate_numeric_expression_with_parameters(
                              cs, u.ast, acc.state)
                 IN IF ~truthy(r.value)
                    THEN [acc EXCEPT !.raised = TRUE, !.param = param]
                    ELSE fixpoint_pass(cs, Tail(keys), known,
                            [acc EXCEPT
                                !.unknown_params = dict_delitem(cs, @, param),
                                !.result_params =
                                    dict_setitem(cs, @, param, ValueCell(r.value)),
                                !.state = state_set(cs, @, param, r.value)])

\* The exception raised when cycles were found: the message joins the
\* cycles, which are lists and not strings, so building it raises TypeError
\* and no cycle is reported.
cycles_exception(cyc) == Raised("TypeError", "join", << >>, {})

\* A variant that names only the first key left in unknown_params.
unresolved_exception_first_only(unknown) ==
    Raised("Exception", "Could not evaluate the following parameters",
           <<dict_iter(unknown)[1]>>, {})

\* The exception raised after the loop: it names the keys left in
\* unknown_params.
unresolved_exception(unknown) ==
    Raised("Exception", "Could not evaluate the following parameters",
           dict_iter(unknown), {})

\* The exception raised inside the loop.
not_evaluated_exception(param) ==
    Raised("Exception", "It should be possible to evaluate the parameter",
           <<param>>, {})

-----------------------------------------------------------------------------
(* The inputs                                                               *)

\* Parameter.default_value: absent, a numeric literal, a numeric string or
\* an expression over another parameter.
DefaultValues ==
    {NoExpr, FloatLit(0), StrNumber(0), StrNumber(5)} \cup
    {StrExpr(n, 2) : n \in RefNames}

\* Values of a scenario entry.
OverrideValues ==
    {StrNumber(0), StrNumber(5)} \cup {StrExpr(n, 2) : n \in RefNames}

\* The names of S in the order of NameOrder.
in_name_order(S) == SelectSeq(NameOrder, LAMBDA n : n \in S)

\* Lists of base parameters: distinct names (distinct up to letter case when
\* names are case insensitive), at most MaxParams of them.
BaseParamLists(cs) ==
    UNION {{[i \in 1..Cardinality(S) |->
                [name |-> in_name_order(S)[i],
                 default_value |-> f[in_name_order(S)[i]]]] :
            f \in [S -> DefaultValues]} :
           S \in {T \in SUBSET Names :
                    /\ Cardinality(T) <= MaxParams
                    /\ \A a, b \in T : store_key(cs, a) = store_key(cs, b) => a = b}}

\* Scenario dictionaries, made by create_dictionary and filled entry by entry.
ScenarioDicts(cs) ==
    UNION {{dict_update(cs, create_dictionary,
                [i \in 1..Cardinality(S) |->
                    [key |-> in_name_order(S)[i], val |-> f[in_name_order(S)[i]]]]) :
            f \in [S -> OverrideValues]} :
           S \in {T \in SUBSET Names : Cardinality(T) <= MaxOverrides}}

-----------------------------------------------------------------------------
(* A flow graph under construction, untouched while parameters are resolved *)

\* nx.DiGraph(): nodes with their split attribute, edges with their weight.
EmptyGraph == [nodes |-> {}, split |-> << >>, edges |-> {}, weight |-> << >>]

\* get_computation_graph has not returned anything.
NoGraph == [built |-> FALSE, edges |-> {}, weight |-> << >>, reverse_weight |-> << >>,
            direct_split |-> << >>, reverse_split |-> << >>]

\* No scale graph is being built.
NoScaleGraph == [nodes |-> {}, edges |-> {}, ast |-> << >>, value |-> << >>,
                 beginning |-> << >>, node_value |-> << >>]
NoCall == [status |-> "none", exception |-> ""]

ScaleIdle ==
    /\ scale_relations = << >>
    /\ spc = "create"
    /\ scale_graph = NoScaleGraph
    /\ scale_before = NoScaleGraph
    /\ scale_params = create_dictionary
    /\ beginning_values = << >>
    /\ scale_outcome = NoCall

\* nx.DiGraph() without nodes.
NoRelations == [nodes |-> {}, edges |-> {}, weight |-> << >>]
SolverRunning == [status |-> "running", exception |-> "", early |-> FALSE]

SolverIdle ==
    /\ global_parameters = << >>
    /\ scenarios = << >>
    /\ time_observations = << >>
    /\ declared_relations = << >>
    /\ relations = NoRelations
    /\ spos = "start"
    /\ scenario_idx = 0
    /\ period_idx = 0
    /\ scenario_state = create_dictionary
    /\ graph_params = << >>
    /\ compute_nodes = {}
    /\ combinations_left = 0
    /\ unit_log = << >>
    /\ units_seen = {}
    /\ used_weights = << >>
    /\ resolutions = << >>
    /\ solver_outcome = SolverRunning

\* get_type_from_all_time_periods has not been called.
NotTyped == "not typed"
TimeRunning == [status |-> "running", exception |-> "",
                absolute |-> << >>, relative |-> << >>]

TimeIdle ==
    /\ prd_observations = << >>
    /\ tpos = "start"
    /\ obs_by_time = << >>
    /\ time_period_type = NotTyped
    /\ time_outcome = TimeRunning

\* analyze_and_complete has been called at most once.
RerunIdle ==
    /\ run = 1
    /\ first_run = [direct |-> EmptyGraph, reverse |-> EmptyGraph, issues |-> << >>]
    /\ rerun_issues = << >>

\* No call of set_update_scales_graph has assigned anything.
ScaleTraceIdle == assignments = << >>

\* Lines 604-636 have not been entered.
ComputeIdle ==
    /\ cg = NoGraph
    /\ cg_params = << >>
    /\ cpos = "start"
    /\ cg_nodes = {}
    /\ cg_conflicts = << >>
    /\ cg_combinations = << >>
    /\ cg_calls = << >>
    /\ cg_outcome = "running"

\* The registry is empty and no call has been made.
RegistryIdle ==
    /\ glb_idx = << >>
    /\ registry_objects = << >>
    /\ factor_observations = << >>
    /\ named_processors = {}
    /\ value_calls = << >>
    /\ registry_calls = 0
    /\ registry_raised = FALSE

LateIdle == RerunIdle /\ ScaleTraceIdle /\ ComputeIdle /\ RegistryIdle

ExtIdle == ScaleIdle /\ SolverIdle /\ TimeIdle /\ LateIdle

FlowIdle ==
    /\ direct_graph = EmptyGraph
    /\ reverse_graph = EmptyGraph
    /\ fpc = "build"
    /\ visited = {}
    /\ issues = << >>
    /\ initial_direct = EmptyGraph
    /\ initial_reverse = EmptyGraph
    /\ after_direct = EmptyGraph
    /\ comp_graph = NoGraph

-----------------------------------------------------------------------------
(* The resolver as a state machine                                          *)

ParamInit ==
    /\ case_sensitive \in BOOLEAN
    /\ base_params \in BaseParamLists(case_sensitive)
    /\ scenario_params \in ScenarioDicts(case_sensitive)
    /\ pc = "merge"
    /\ result_params = create_dictionary
    /\ known_params = create_dictionary
    /\ unknown_params = create_dictionary
    /\ state = create_dictionary
    /\ cycles = {}
    /\ previous_len_unknown_params = 0
    /\ passes = 0
    /\ outcome = Running
    /\ FlowIdle
    /\ ExtIdle

\* Lines 84-92: the merged dictionary, an empty State, empty dictionaries.
MergeParams ==
    /\ pc = "merge"
    /\ result_params' = merge_params(case_sensitive, base_params, scenario_params)
    /\ pc' = "evaluate"
    /\ UNCHANGED <<flow_vars, ext_vars>>
    /\ UNCHANGED <<case_sensitive, base_params, scenario_params, known_params,
                   unknown_params, state, cycles, previous_len_unknown_params,
                   passes, outcome>>

\* Lines 95-104: every expression is evaluated once.
EvaluateAll ==
    /\ pc = "evaluate"
    /\ LET acc == evaluate_all(case_sensitive, 1,
                     [result_params |-> result_params,
                      known_params |-> known_params,
                      unknown_params |-> unknown_params])
       IN /\ result_params' = acc.result_params
          /\ known_params' = acc.known_params
          /\ unknown_params' = acc.unknown_params
    /\ pc' = "cycles"
    /\ UNCHANGED <<flow_vars, ext_vars>>
    /\ UNCHANGED <<case_sensitive, base_params, scenario_params, state, cycles,
                   previous_len_unknown_params, passes, outcome>>

\* Lines 106-115: the cycle check; without cycles the State receives the
\* known parameters and the loop counter is set.
CheckCycles ==
    /\ pc = "cycles"
    /\ cycles' = get_circular_dependencies(unknown_params)
    /\ IF Cardinality(cycles') > 0
       THEN /\ outcome' = cycles_exception(cycles')
            /\ pc' = "raised_cycles"
            /\ UNCHANGED <<state, previous_len_unknown_params>>
       ELSE /\ state' = state_update(case_sensitive, state, known_params)
            /\ previous_len_unknown_params' = Len(unknown_params) + 1
            /\ pc' = "loop"
            /\ UNCHANGED outcome
    /\ UNCHANGED <<flow_vars, ext_vars>>
    /\ UNCHANGED <<case_sensitive, base_params, scenario_params, result_params,
                   known_params, unknown_params, passes>>

\* Lines 116-129: one body of the while loop.
FixpointPass ==
    /\ pc = "loop"
    /\ Len(unknown_params) < previous_len_unknown_params
    /\ LET acc == fixpoint_pass(case_sensitive, dict_iter(unknown_params), known_params,
                     [unknown_params |-> unknown_params,
                      result_params |-> result_params,
                      state |-> state, raised |-> FALSE, param |-> ""])
       IN /\ unknown_params' = acc.unknown_params
          /\ result_params' = acc.result_params
          /\ state' = acc.state
          /\ IF acc.raised
             THEN /\ outcome' = not_evaluated_exception(acc.param)
                  /\ pc' = "raised_in_loop"
             ELSE /\ pc' = "loop"
                  /\ UNCHANGED outcome
    /\ previous_len_unknown_params' = Len(unknown_params)
    /\ passes' = passes + 1
    /\ UNCHANGED <<flow_vars, ext_vars>>
    /\ UNCHANGED <<case_sensitive, base_params, scenario_params, known_params, cycles>>

\* Lines 131-134: the loop has ended.
FinishParams ==
    /\ pc = "loop"
    /\ ~(Len(unknown_params) < previous_len_unknown_params)
    /\ outcome' = IF Len(unknown_params) > 0
                  THEN unresolved_exception(unknown_params)
                  ELSE Returned(result_params)
    /\ pc' = "after_loop"
    /\ UNCHANGED <<flow_vars, ext_vars>>
    /\ UNCHANGED <<case_sensitive, base_params, scenario_params, result_params,
                   known_params, unknown_params, state, cycles,
                   previous_len_unknown_params, passes>>

ParamNext ==
    \/ MergeParams
    \/ EvaluateAll
    \/ CheckCycles
    \/ FixpointPass
    \/ FinishParams

ParamSpec == ParamInit /\ [][ParamNext]_vars

\* The call has ended, by a return or by an exception.
ParamDone == pc \in {"raised_cycles", "raised_in_loop", "after_loop"}

-----------------------------------------------------------------------------
(* evaluate_parameters_for_scenario as one function of its arguments        *)

RECURSIVE fixpoint_loop(_, _, _, _)
fixpoint_loop(cs, known, acc, previous) ==
    IF Len(acc.unknown_params) < previous
    THEN LET next == fixpoint_pass(cs, dict_iter(acc.unknown_params), known, acc)
         IN IF next.raised THEN next
            ELSE fixpoint_loop(cs, known, next, Len(acc.unknown_params))
    ELSE acc

evaluate_parameters_for_scenario(cs, base, scen) ==
    LET first == evaluate_all(cs, 1,
                    [result_params |-> merge_params(cs, base, scen),
                     known_params |-> create_dictionary,
                     unknown_params |-> create_dictionary])
        cyc == get_circular_dependencies(first.unknown_params)
        last == fixpoint_loop(cs, first.known_params,
                    [unknown_params |-> first.unknown_params,
                     result_params |-> first.result_params,
                     state |-> state_update(cs, create_dictionary, first.known_params),
                     raised |-> FALSE, param |-> ""],
                    Len(first.unknown_params) + 1)
    IN IF Cardinality(cyc) > 0 THEN cycles_exception(cyc)
       ELSE IF last.raised THEN not_evaluated_exception(last.param)
       ELSE IF Len(last.unknown_params) > 0 THEN unresolved_exception(last.unknown_params)
       ELSE Returned(last.result_params)

-----------------------------------------------------------------------------
(* What the inputs mean, independently of the resolver: a parameter is      *)
(* identified by its name as names are compared, its expression is the      *)
(* scenario entry when there is one and its default otherwise.              *)

ParamKey(n) == store_key(case_sensitive, n)

OverriddenKeys == {ParamKey(scenario_params[i].key) : i \in 1..Len(scenario_params)}

DefaultedKeys ==
    {ParamKey(base_params[i].name) :
        i \in {j \in 1..Len(base_params) : base_params[j].default_value # NoExpr}}

DeclaredKeys == OverriddenKeys \cup DefaultedKeys

OverrideOf(K) ==
    scenario_params[CHOOSE i \in 1..Len(scenario_params) :
                        ParamKey(scenario_params[i].key) = K].val

DefaultOf(K) ==
    base_params[CHOOSE i \in 1..Len(base_params) :
                    ParamKey(base_params[i].name) = K].default_value

ExprOf(K) == IF K \in OverriddenKeys THEN OverrideOf(K) ELSE DefaultOf(K)

DepsOf(K) == IF ExprOf(K).type = "str_expr" THEN {ParamKey(ExprOf(K).name)} ELSE {}

\* The keys reached from the set S by following references up to n times.
RECURSIVE ReachedFrom(_, _)
ReachedFrom(S, n) ==
    IF n = 0 THEN S
    ELSE LET R == ReachedFrom(S, n - 1)
         IN R \cup UNION {DepsOf(K) : K \in R \cap DeclaredKeys}

\* The keys K depends on, directly or not.
DependsOn(K) == ReachedFrom(DepsOf(K), Cardinality(DeclaredKeys))

OnCycle(K) == K \in DependsOn(K)
ReferencesAcyclic == \A K \in DeclaredKeys : ~OnCycle(K)
ReferencesDefined == \A K \in DeclaredKeys : DepsOf(K) \subseteq DeclaredKeys

\* The value of the fully substituted expression of K.
RECURSIVE SubstitutedValue(_)
SubstitutedValue(K) ==
    IF ExprOf(K).type = "str_expr"
    THEN SubstitutedValue(ParamKey(ExprOf(K).name)) * ExprOf(K).k
    ELSE ExprOf(K).value

\* The entries of a returned map that stand for parameter K.
EntriesOf(map, K) == {i \in 1..Len(map) : ParamKey(map[i].key) = K}

\* The value the returned map gives to parameter K (None when absent).
MapValue(map, K) ==
    IF EntriesOf(map, K) = {} THEN None
    ELSE map[CHOOSE i \in EntriesOf(map, K) : TRUE].val.value

\* C1: when the references are acyclic and all defined, the call returns a
\* map in which every parameter appears exactly once, with the value of its
\* fully substituted expression (0 included).
C1_EveryParameterResolved ==
    (ParamDone /\ ReferencesAcyclic /\ ReferencesDefined) =>
        /\ outcome.status = "returned"
        /\ \A i \in 1..Len(outcome.map) : ParamKey(outcome.map[i].key) \in DeclaredKeys
        /\ \A K \in DeclaredKeys :
            /\ Cardinality(EntriesOf(outcome.map, K)) = 1
            /\ MapValue(outcome.map, K) = Num(SubstitutedValue(K))

\* The cycles of the references, each as the set of its parameters, and the
\* cycles an exception reports, likewise.
InjectedCycles == {DependsOn(K) : K \in {J \in DeclaredKeys : OnCycle(J)}}
ReportedCycles ==
    {{ParamKey(c[i]) : i \in 1..Len(c)} : c \in outcome.cycles}

\* C2: when the references contain a cycle, the call fails before the first
\* pass of the fixpoint loop, returns no map, and the failure reports
\* exactly the cycles of the references.
C2_CycleReported ==
    (ParamDone /\ ~ReferencesAcyclic) =>
        /\ outcome.status = "raised"
        /\ passes = 0
        /\ outcome.map = << >>
        /\ ReportedCycles = InjectedCycles

\* The parameters of result_params that hold no value yet.
Unresolved ==
    {result_params[i].key : i \in {j \in 1..Len(result_params) :
                                      ~result_params[j].val.is_value}}

\* C3: when the fixpoint loop has stopped and some parameter is unresolved,
\* the call raises an error that names exactly the unresolved parameters,
\* and returns no map.
C3_UnresolvedNamed ==
    (pc = "after_loop" /\ Unresolved # {}) =>
        /\ outcome.status = "raised"
        /\ outcome.map = << >>
        /\ {outcome.names[i] : i \in 1..Len(outcome.names)} = Unresolved
        /\ Len(outcome.names) = Cardinality(Unresolved)

\* C3 happens: the loop ran, stopped, and left a parameter that references
\* an undeclared name, next to one that was resolved.
C3_Witness ==
    /\ pc = "after_loop"
    /\ passes >= 1
    /\ \E K \in DeclaredKeys : ~(DepsOf(K) \subseteq DeclaredKeys)
    /\ Cardinality(Unresolved) >= 1
    /\ \E i \in 1..Len(result_params) : result_params[i].val.is_value

\* The same inputs with every name written in lower case.
lower_expr(e) == IF e.type = "str_expr" THEN StrExpr(lower(e.name), e.k) ELSE e
lower_base(base) ==
    [i \in 1..Len(base) |->
        [name |-> lower(base[i].name),
         default_value |-> lower_expr(base[i].default_value)]]
lower_scenario(scen) ==
    dict_update(TRUE, create_dictionary,
        [i \in 1..Len(scen) |-> [key |-> lower(scen[i].key), val |-> lower_expr(scen[i].val)]])

\* The values of a map by lowercased name, and cycles as sets of lowercased names.
ValuesByLowerName(map) == {<<lower(map[i].key), map[i].val.value>> : i \in 1..Len(map)}
LowerCycles(cyc) == {{lower(c[i]) : i \in 1..Len(c)} : c \in cyc}

\* The cycles the call detects on given inputs.
detected_cycles(cs, base, scen) ==
    get_circular_dependencies(
        evaluate_all(cs, 1, [result_params |-> merge_params(cs, base, scen),
                             known_params |-> create_dictionary,
                             unknown_params |-> create_dictionary]).unknown_params)

\* C4: with case-insensitive names the call ends as the case-sensitive call
\* on the same inputs written in lower case does: same success or failure,
\* same values, same cycles detected.
C4_CaseSwitchOnlyNames ==
    (ParamDone /\ ~case_sensitive) =>
        LET ref == evaluate_parameters_for_scenario(
                       TRUE, lower_base(base_params), lower_scenario(scenario_params))
        IN /\ outcome.status = ref.status
           /\ ValuesByLowerName(outcome.map) = ValuesByLowerName(ref.map)
           /\ LowerCycles(cycles) =
                LowerCycles(detected_cycles(TRUE, lower_base(base_params),
                                            lower_scenario(scenario_params)))

\* The value of an expression under a returned map.
ExprValueUnder(map, e) ==
    IF e.type = "str_expr"
    THEN IF MapValue(map, ParamKey(e.name)).isNone THEN None
         ELSE Num(MapValue(map, ParamKey(e.name)).v * e.k)
    ELSE Num(e.value)

\* C5: in a returned map an overridden parameter has the value of its
\* override, a parameter with only a default has the value of its default,
\* and expressions are evaluated against the values of the map, so against
\* the overridden ones.
C5_OverrideWins ==
    outcome.status = "returned" =>
        /\ \A K \in OverriddenKeys :
              MapValue(outcome.map, K) = ExprValueUnder(outcome.map, OverrideOf(K))
        /\ \A K \in DefaultedKeys \ OverriddenKeys :
              MapValue(outcome.map, K) = ExprValueUnder(outcome.map, DefaultOf(K))

-----------------------------------------------------------------------------
(* The resolver at rest, while a flow graph is built and completed          *)

ParamIdle ==
    /\ case_sensitive = FALSE
    /\ base_params = << >>
    /\ scenario_params = create_dictionary
    /\ pc = "merge"
    /\ result_params = create_dictionary
    /\ known_params = create_dictionary
    /\ unknown_params = create_dictionary
    /\ state = create_dictionary
    /\ cycles = {}
    /\ previous_len_unknown_params = 0
    /\ passes = 0
    /\ outcome = Running

-----------------------------------------------------------------------------
(* Weights: None or a number.  Numbers are exact fractions num/den in       *)
(* lowest terms, den > 0.                                                   *)

\* Largest number of edges of a flow graph.
MaxEdges == 3

RECURSIVE gcd(_, _)
gcd(a, b) == IF b = 0 THEN a ELSE gcd(b, a % b)

abs(a) == IF a < 0 THEN -a ELSE a

NoWeight == [isNone |-> TRUE, num |-> 0, den |-> 1]
Frac(n, d) ==
    LET g == gcd(abs(n), abs(d))
        sgn == IF d < 0 THEN -1 ELSE 1
    IN [isNone |-> FALSE, num |-> sgn * (n \div g), den |-> sgn * (d \div g)]

\* bool(weight) of Python: None and 0 are falsy.
weight_truthy(w) == ~w.isNone /\ w.num # 0

w_add(a, b) == Frac(a.num * b.den + b.num * a.den, a.den * b.den)
w_sub(a, b) == Frac(a.num * b.den - b.num * a.den, a.den * b.den)
\* A variant that forgets to invert.
w_inverse_forgotten(a) == a
\* 1.0 / a
w_inverse(a) == Frac(a.den, a.num)
\* A variant with the comparison turned around.
w_greater_flipped(a, b) == a.num * b.den < b.num * a.den
\* a > b
w_greater(a, b) == a.num * b.den > b.num * a.den
One == Frac(1, 1)
Zero == Frac(0, 1)

\* reduce(add, weights): the sum of the weights of a set of edges.
RECURSIVE sum_weights(_, _)
sum_weights(weight, E) ==
    IF E = {} THEN Zero
    ELSE LET e == CHOOSE x \in E : TRUE
         IN w_add(weight[e], sum_weights(weight, E \ {e}))

\* A variant for which no sum is close to 1.0.
isclose_never(w) == FALSE
\* math.isclose(sum, 1.0) on exact fractions.
isclose_one(w) == w = One

FlowNodes == {"A", "B", "C", "D"}
\* The flow relations that may be declared: a node with three successors, a
\* node with two predecessors, a chain, and B -> A that closes a cycle.
FlowEdges == {<<"A", "B">>, <<"A", "C">>, <<"A", "D">>, <<"B", "C">>, <<"B", "A">>}
DirectWeights == {NoWeight, Zero, Frac(1, 2), One, Frac(2, 1)}
ReverseWeights == {NoWeight, Frac(1, 2)}

-----------------------------------------------------------------------------
(* nx.DiGraph                                                               *)

\* f with key k set to v (f is a function, k may be new).
put(f, k, v) == [x \in DOMAIN f \cup {k} |-> IF x = k THEN v ELSE f[x]]

\* DiGraph.add_edge(u, v, weight=w): absent nodes are added without
\* attributes, the edge's weight is set.
graph_add_edge(g, u, v, w) ==
    [nodes |-> g.nodes \cup {u, v},
     split |-> [n \in g.nodes \cup {u, v} |->
                   IF n \in g.nodes THEN g.split[n] ELSE "None"],
     edges |-> g.edges \cup {<<u, v>>},
     weight |-> put(g.weight, <<u, v>>, w)]

\* DiGraph.out_edges(n)
out_edges(g, n) == {e \in g.edges : e[1] = n}

\* The nodes reached from n along one or more edges.
RECURSIVE reached(_, _, _)
reached(g, S, k) ==
    IF k = 0 THEN S
    ELSE LET R == reached(g, S, k - 1)
         IN R \cup {e[2] : e \in {x \in g.edges : x[1] \in R}}

successors(g, n) == {e[2] : e \in out_edges(g, n)}

\* nx.algorithms.dag.is_directed_acyclic_graph
is_directed_acyclic_graph(g) ==
    \A n \in g.nodes : n \notin reached(g, successors(g, n), Cardinality(g.nodes))

-----------------------------------------------------------------------------
(* FlowGraph                                                                *)

Issue(itype, pass, node, kind, edges) ==
    [itype |-> itype, pass |-> pass, node |-> node, kind |-> kind, edges |-> edges]

\* The edges of a set of edges that are "without weight": "not weight".
edges_without_weight(g, E) == {e \in E : ~weight_truthy(g.weight[e])}

\* A variant whose result for a node depends on the nodes visited before
\* it: only the first node visited infers anything.
analyze_node_first_only(pass, g, opp, n) ==
    [graph |-> [g EXCEPT !.split[n] =
                    IF \A m \in g.nodes : g.split[m] = "None" THEN "True" ELSE "False"],
     issues |-> << >>]

\* The body of the loop over the nodes of analyze_and_complete, for node n
\* of graph g with opposite graph opp: the graph it leaves and the issues it
\* appends.
analyze_node(pass, g, opp, n) ==
    LET g0 == [g EXCEPT !.split[n] = "False"]
        all_edges == out_edges(g0, n)
        without == edges_without_weight(g0, all_edges)
        edge == CHOOSE e \in without : TRUE
        opposite_weight == opp.weight[<<edge[2], edge[1]>>]
        sum_other_weights == sum_weights(g0.weight, all_edges \ without)
        sum_all_weights == sum_weights(g0.weight, all_edges)
    IN IF Cardinality(all_edges) = 0
       THEN [graph |-> g0, issues |-> << >>]
       ELSE IF Cardinality(without) > 1
       THEN [graph |-> g0,
             issues |-> <<Issue("WARNING", pass, n, "edges without weight", without)>>]
       ELSE IF Cardinality(without) = 1
       THEN IF Cardinality(all_edges) = 1
            THEN IF weight_truthy(opposite_weight)
                 THEN [graph |-> [g0 EXCEPT !.weight[edge] = w_inverse(opposite_weight)],
                       issues |-> <<Issue("INFO", pass, n,
                                          "inferred from opposite weight", {edge})>>]
                 ELSE [graph |-> [g0 EXCEPT !.weight[edge] = One],
                       issues |-> <<Issue("INFO", pass, n,
                                          "inferred without opposite weight", {edge})>>]
            ELSE IF w_greater(sum_other_weights, One)
                 THEN [graph |-> g0,
                       issues |-> <<Issue("WARNING", pass, n,
                                          "cannot be inferred", {edge})>>]
                 ELSE [graph |-> [g0 EXCEPT !.weight[edge] = w_sub(One, sum_other_weights),
                                            !.split[n] = "True"],
                       issues |-> <<Issue("INFO", pass, n,
                                          "inferred from the sum of other weights", {edge})>>]
       ELSE IF Cardinality(all_edges) > 1 /\ isclose_one(sum_all_weights)
       THEN [graph |-> [g0 EXCEPT !.split[n] = "True"], issues |-> << >>]
       ELSE [graph |-> g0, issues |-> << >>]

\* The nodes a topological sort of g may yield next, given those yielded.
topological_next(g, done) ==
    {n \in g.nodes \ done : \A e \in g.edges : e[2] = n => e[1] \in done}

\* _create_computation_graph: one edge per edge of the flow graph with both
\* weights, and the split flags of both graphs.
create_computation_graph(d, r) ==
    [built |-> TRUE,
     edges |-> d.edges,
     weight |-> d.weight,
     reverse_weight |-> [e \in d.edges |-> r.weight[<<e[2], e[1]>>]],
     direct_split |-> d.split,
     reverse_split |-> r.split]

FlowInit ==
    /\ ParamIdle
    /\ FlowIdle
    /\ ExtIdle

\* A variant that adds the edge in the same direction to both graphs.
AddEdge_same_direction(u, v, weight, reverse_weight) ==
    /\ fpc = "build"
    /\ <<u, v>> \in FlowEdges
    /\ Cardinality(direct_graph.edges \cup {<<u, v>>}) <= MaxEdges
    /\ direct_graph' = graph_add_edge(direct_graph, u, v, weight)
    /\ reverse_graph' = graph_add_edge(reverse_graph, u, v, reverse_weight)
    /\ UNCHANGED <<fpc, visited, issues, initial_direct, initial_reverse,
                   after_direct, comp_graph>>
    /\ UNCHANGED <<param_vars, ext_vars>>

\* FlowGraph.add_edge(u, v, weight, reverse_weight); an edge added again
\* gets the new weights.
AddEdge(u, v, weight, reverse_weight) ==
    /\ fpc = "build"
    /\ <<u, v>> \in FlowEdges
    /\ Cardinality(direct_graph.edges \cup {<<u, v>>}) <= MaxEdges
    /\ direct_graph' = graph_add_edge(direct_graph, u, v, weight)
    /\ reverse_graph' = graph_add_edge(reverse_graph, v, u, reverse_weight)
    /\ UNCHANGED <<fpc, visited, issues, initial_direct, initial_reverse,
                   after_direct, comp_graph>>
    /\ UNCHANGED <<param_vars, ext_vars>>

\* get_computation_graph calls analyze_and_complete: lines 105-110, the
\* check for cycles.
StartAnalysis ==
    /\ fpc = "build"
    /\ initial_direct' = direct_graph
    /\ initial_reverse' = reverse_graph
    /\ visited' = {}
    /\ IF ~is_directed_acyclic_graph(direct_graph)
       THEN /\ issues' = <<Issue("ERROR", "", "", "The graph contains cycles", {})>>
            /\ fpc' = "analyzed"
       ELSE /\ issues' = << >>
            /\ fpc' = IF direct_graph.nodes = {} THEN "analyzed" ELSE "direct"
    /\ after_direct' = direct_graph
    /\ UNCHANGED <<direct_graph, reverse_graph, comp_graph>>
    /\ UNCHANGED <<param_vars, ext_vars>>

\* Lines 113-164 for one node of the first pass: the direct graph is
\* completed, the reverse graph is the opposite one.
VisitDirect(n) ==
    /\ fpc = "direct"
    /\ n \in topological_next(direct_graph, visited)
    /\ LET r == analyze_node("direct", direct_graph, reverse_graph, n)
       IN /\ direct_graph' = r.graph
          /\ issues' = issues \o r.issues
          /\ after_direct' = r.graph
    /\ IF visited \cup {n} = direct_graph.nodes
       THEN fpc' = "reverse" /\ visited' = {}
       ELSE fpc' = "direct" /\ visited' = visited \cup {n}
    /\ UNCHANGED <<reverse_graph, initial_direct, initial_reverse, comp_graph>>
    /\ UNCHANGED <<param_vars, ext_vars>>

\* Lines 113-164 for one node of the second pass: the reverse graph is
\* completed, the direct graph is the opposite one.
VisitReverse(n) ==
    /\ fpc = "reverse"
    /\ n \in topological_next(reverse_graph, visited)
    /\ LET r == analyze_node("reverse", reverse_graph, direct_graph, n)
       IN /\ reverse_graph' = r.graph
          /\ issues' = issues \o r.issues
    /\ IF visited \cup {n} = reverse_graph.nodes
       THEN fpc' = "analyzed" /\ visited' = {}
       ELSE fpc' = "reverse" /\ visited' = visited \cup {n}
    /\ UNCHANGED <<direct_graph, initial_direct, initial_reverse, after_direct, comp_graph>>
    /\ UNCHANGED <<param_vars, ext_vars>>

\* A variant that builds the computation graph whatever the issues are.
ReturnComputationGraph_ignoring_errors ==
    /\ fpc = "analyzed"
    /\ comp_graph' = create_computation_graph(direct_graph, reverse_graph)
    /\ fpc' = "returned"
    /\ UNCHANGED <<direct_graph, reverse_graph, visited, issues, initial_direct,
                   initial_reverse, after_direct>>
    /\ UNCHANGED <<param_vars, ext_vars>>

\* get_computation_graph, lines 67-70: no graph when an ERROR was issued.
ReturnComputationGraph ==
    /\ fpc = "analyzed"
    /\ comp_graph' = IF \E i \in 1..Len(issues) : issues[i].itype = "ERROR"
                     THEN NoGraph
                     ELSE create_computation_graph(direct_graph, reverse_graph)
    /\ fpc' = "returned"
    /\ UNCHANGED <<direct_graph, reverse_graph, visited, issues, initial_direct,
                   initial_reverse, after_direct>>
    /\ UNCHANGED <<param_vars, ext_vars>>

\* Lines 112-164 for one graph: analyze_and_complete over the nodes in one
\* topological order, the one CHOOSE fixes; the graph it leaves and the
\* list of issues, lst, with those it appends.
RECURSIVE complete_pass(_, _, _, _, _)
complete_pass(pass, g, opp, done, lst) ==
    IF topological_next(g, done) = {} THEN [graph |-> g, issues |-> lst]
    ELSE LET n == CHOOSE x \in topological_next(g, done) : TRUE
             r == analyze_node(pass, g, opp, n)
         IN complete_pass(pass, r.graph, opp, done \cup {n}, lst \o r.issues)

\* analyze_and_complete is called again on the flow graph the first call
\* has completed; the graphs the first call left are kept aside.
AnalyzeAgain ==
    /\ fpc = "returned"
    /\ run = 1
    /\ comp_graph.built
    /\ first_run' = [direct |-> direct_graph, reverse |-> reverse_graph,
                      issues |-> issues]
    /\ run' = 2
    /\ LET d == complete_pass("direct", direct_graph, reverse_graph, {}, << >>)
           r == complete_pass("reverse", reverse_graph, d.graph, {}, d.issues)
       IN /\ direct_graph' = d.graph
          /\ reverse_graph' = r.graph
          /\ rerun_issues' = r.issues
    /\ UNCHANGED <<fpc, visited, issues, initial_direct, initial_reverse,
                   after_direct, comp_graph>>
    /\ UNCHANGED <<param_vars, scale_vars, solver_vars, time_vars, scale_trace_vars,
                   compute_vars, registry_vars>>

FlowNext ==
    \/ \E u, v \in FlowNodes, w \in DirectWeights, rw \in ReverseWeights :
          AddEdge(u, v, w, rw)
    \/ StartAnalysis
    \/ \E n \in FlowNodes : VisitDirect(n)
    \/ \E n \in FlowNodes : VisitReverse(n)
    \/ ReturnComputationGraph
    \/ AnalyzeAgain

FlowSpec == FlowInit /\ [][FlowNext]_vars

-----------------------------------------------------------------------------
(* Claims about the flow graph                                              *)

Passes == {"direct", "reverse"}
\* The graph a pass completes, as it was when get_computation_graph was
\* called, and as it is now.
InitialOf(pass) == IF pass = "direct" THEN initial_direct ELSE initial_reverse
CurrentOf(pass) == IF pass = "direct" THEN direct_graph ELSE reverse_graph
\* The opposite graph as the pass sees it: the reverse graph as declared for
\* the direct pass, the direct graph as the direct pass left it for the
\* reverse pass.
OppositeOf(pass) == IF pass = "direct" THEN initial_reverse ELSE after_direct

\* analyze_and_complete has run to its end on an acyclic graph.
Completed == fpc \in {"analyzed", "returned"} /\ is_directed_acyclic_graph(initial_direct)

\* The outgoing edges of n that have no weight (None), and the sum of the
\* weights of the others.
NoneEdges(g, n) == {e \in out_edges(g, n) : g.weight[e].isNone}
KnownSum(g, n) == sum_weights(g.weight, out_edges(g, n) \ NoneEdges(g, n))

\* The fraction a is greater than the fraction b.
Exceeds(a, b) == a.num * b.den > b.num * a.den

IssuesFor(pass, n, itype) ==
    {i \in 1..Len(issues) :
        issues[i].pass = pass /\ issues[i].node = n /\ issues[i].itype = itype}

HasError == \E i \in 1..Len(issues) : issues[i].itype = "ERROR"

\* A cycle of the direct graph as it was declared: a node that reaches itself.
DeclaredCycle ==
    \E n \in initial_direct.nodes :
        n \in reached(initial_direct, successors(initial_direct, n),
                      Cardinality(initial_direct.nodes))

\* C6: get_computation_graph returns a computation graph exactly when the
\* direct graph is acyclic; with a cycle there is an ERROR, no computation
\* graph, and no weight or split flag has changed; without a cycle there is
\* no ERROR and a graph is returned, whatever WARNINGs there are.
C6_GraphIffAcyclic ==
    fpc = "returned" =>
        /\ comp_graph.built <=> ~DeclaredCycle
        /\ DeclaredCycle =>
              /\ HasError
              /\ direct_graph = initial_direct
              /\ reverse_graph = initial_reverse
        /\ ~DeclaredCycle => ~HasError

\* C6 happens: A -> B -> A was declared and the call has returned.
C6_Witness ==
    /\ fpc = "returned"
    /\ {<<"A", "B">>, <<"B", "A">>} \subseteq initial_direct.edges
    /\ ~comp_graph.built

\* C7: a node with two or more outgoing edges, exactly one of them without
\* weight, the weights of the others summing to at most 1: the missing
\* weight becomes 1 minus the sum, the node is marked split, one INFO.
C7_MissingWeightFromSum ==
    Completed =>
        \A pass \in Passes : \A n \in InitialOf(pass).nodes :
            (/\ Cardinality(out_edges(InitialOf(pass), n)) >= 2
             /\ Cardinality(NoneEdges(InitialOf(pass), n)) = 1
             /\ ~Exceeds(KnownSum(InitialOf(pass), n), One)) =>
                /\ \A e \in NoneEdges(InitialOf(pass), n) :
                      CurrentOf(pass).weight[e] = w_sub(One, KnownSum(InitialOf(pass), n))
                /\ CurrentOf(pass).split[n] = "True"
                /\ Cardinality(IssuesFor(pass, n, "INFO")) = 1

C9_SumAboveOneNotInferred ==
    Completed =>
        \A pass \in Passes : \A n \in InitialOf(pass).nodes :
            (/\ Cardinality(out_edges(InitialOf(pass), n)) >= 2
             /\ Cardinality(NoneEdges(InitialOf(pass), n)) = 1
             /\ Exceeds(KnownSum(InitialOf(pass), n), One)) =>
                /\ \A e \in NoneEdges(InitialOf(pass), n) : CurrentOf(pass).weight[e].isNone
                /\ CurrentOf(pass).split[n] = "False"
                /\ IssuesFor(pass, n, "WARNING") # {}
                /\ \A p \in Passes : \A m \in CurrentOf(p).nodes :
                      CurrentOf(p).split[m] # "None"

\* C9 happens: A has edges of weight 2 and of no weight, a WARNING was
\* issued for it, and a node visited after it got its weight inferred.
C9_Witness ==
    /\ fpc = "returned"
    /\ \E e, f \in out_edges(initial_direct, "A") :
          /\ initial_direct.weight[e] = Frac(2, 1)
          /\ initial_direct.weight[f].isNone
          /\ direct_graph.weight[f].isNone
    /\ Cardinality(out_edges(initial_direct, "A")) = 2
    /\ \E i, j \in 1..Len(issues) :
          /\ i < j
          /\ issues[i].itype = "WARNING" /\ issues[i].node = "A" /\ issues[i].pass = "direct"
          /\ issues[j].itype = "INFO" /\ issues[j].pass = "direct"

\* C10: a node with two or more outgoing edges without weight: none of its
\* outgoing weights changes, it is not split, and the pass issues exactly
\* one WARNING for it, which lists exactly the edges without weight.
C10_SeveralMissingWeights ==
    Completed =>
        \A pass \in Passes : \A n \in InitialOf(pass).nodes :
            Cardinality(NoneEdges(InitialOf(pass), n)) >= 2 =>
                /\ \A e \in out_edges(InitialOf(pass), n) :
                      CurrentOf(pass).weight[e] = InitialOf(pass).weight[e]
                /\ CurrentOf(pass).split[n] = "False"
                /\ Cardinality(IssuesFor(pass, n, "WARNING")) = 1
                /\ \A i \in IssuesFor(pass, n, "WARNING") :
                      issues[i].edges = NoneEdges(InitialOf(pass), n)

\* C11: after completion of an acyclic graph, a node with outgoing edges that
\* all carried a weight before completion, summing to 1, is split (a single
\* edge of weight 1 included); and every split node has outgoing weights
\* that are all known and sum to 1.
C11_SplitIffFullAllocation ==
    Completed =>
        \A pass \in Passes : \A n \in InitialOf(pass).nodes :
            /\ (/\ out_edges(InitialOf(pass), n) # {}
                /\ NoneEdges(InitialOf(pass), n) = {}
                /\ KnownSum(InitialOf(pass), n) = One) =>
                    CurrentOf(pass).split[n] = "True"
            /\ CurrentOf(pass).split[n] = "True" =>
                    /\ NoneEdges(CurrentOf(pass), n) = {}
                    /\ KnownSum(CurrentOf(pass), n) = One

-----------------------------------------------------------------------------
(* The scale graph: create_scales_graph and set_update_scales_graph.        *)
(* A node is an Interface; an edge holds "ast" (the expression still to be  *)
(* evaluated, or None) and "value"; a node holds "beginning" and, once      *)
(* assigned, "value".  The unit a value is multiplied with is left out:     *)
(* only the magnitude is kept.                                              *)

\* Longest list of scale relations.
MaxRelations == 2

ScaleNodes == {"A", "B", "C"}
\* (origin, destination) of the scale relations that may be declared.
ScalePairs == {<<"A", "B">>, <<"B", "C">>, <<"A", "C">>, <<"B", "A">>, <<"A", "A">>}
\* relation.quantity: a constant or an expression over a parameter.
ScaleQuantities == {StrNumber(2), StrExpr("p1", 2)}
ScaleRelation(o, d, q) == [origin |-> o, destination |-> d, quantity |-> q]
ScaleRelationLists ==
    UNION {[1..n -> {ScaleRelation(e[1], e[2], q) : e \in ScalePairs, q \in ScaleQuantities}] :
              n \in 0..MaxRelations}

\* params: the resolved parameters of a scenario.
ScaleParams == {create_dictionary,
                dict_setitem(FALSE, create_dictionary, "p1", Num(5))}
\* beginning_values: Interface -> expression of its observation.
BeginningExpressions == {FloatLit(3), Ast("p1", 2)}
BeginningValues == UNION {[D -> BeginningExpressions] : D \in SUBSET ScaleNodes}

\* The issues evaluate_numeric_expression_with_parameters returns: one for
\* every name the state does not resolve.
evaluation_issues(cs, expression, st) ==
    evaluate_numeric_expression_with_parameters(cs, expression, st).params

\* G.add_edge(origin, destination, rel=relation, ast=ast, value=value)
scale_add_edge(G, u, v, ast, value) ==
    [G EXCEPT !.nodes = @ \cup {u, v},
              !.edges = @ \cup {<<u, v>>},
              !.ast = put(@, <<u, v>>, ast),
              !.value = put(@, <<u, v>>, value)]

ScaleReturned(G) == [status |-> "returned", exception |-> "", graph |-> G]
ScaleRaised(exc) == [status |-> "raised", exception |-> exc, graph |-> NoScaleGraph]

\* The loop of create_scales_graph over the relations, then the marking of
\* the beginning nodes.
RECURSIVE create_scales_loop(_, _, _, _, _)
create_scales_loop(cs, relation_list, G, origin_interfaces, destination_interfaces) ==
    IF relation_list = << >>
    THEN ScaleReturned(
             [G EXCEPT !.beginning = [n \in G.nodes |->
                                         n \in origin_interfaces \ destination_interfaces],
                       !.node_value = [n \in G.nodes |-> None]])
    ELSE LET relation == Head(relation_list)
             r == evaluate_numeric_expression_with_parameters(cs, relation.quantity,
                                                              create_dictionary)
             issue_lst == evaluation_issues(cs, relation.quantity, create_dictionary)
             ast == IF truthy(r.value) THEN NoExpr ELSE r.ast
         IN IF issue_lst # {}
            THEN ScaleRaised("AssertionError")
            ELSE IF relation.destination \in destination_interfaces
            THEN ScaleRaised("Exception")
            ELSE create_scales_loop(cs, Tail(relation_list),
                     scale_add_edge(G, relation.origin, relation.destination, ast, r.value),
                     origin_interfaces \cup {relation.origin},
                     destination_interfaces \cup {relation.destination})

create_scales_graph(cs, relation_list) ==
    create_scales_loop(cs, relation_list, NoScaleGraph, {}, {})

\* A variant that takes every node for a beginning one.
all_scale_interfaces(G) == G.nodes
get_scale_beginning_interfaces(G) == {n \in G.nodes : G.beginning[n]}

\* A variant that takes no node for a following one.
following_interfaces_none(G) == {}
\* all_interfaces.difference(beginning_interfaces)
following_interfaces(G) == G.nodes \ get_scale_beginning_interfaces(G)

\* graph.nodes[i]["value"] = v for every node of S
set_node_values(G, S, val) ==
    [G EXCEPT !.node_value = [n \in G.nodes |-> IF n \in S THEN val[n] ELSE @[n]]]

\* compute_scaled_nodes(nodes): every successor gets the value of its
\* predecessor times the value of the edge, then its own successors follow.
RECURSIVE compute_scaled_nodes(_, _)
compute_scaled_nodes(G, nodes) ==
    IF nodes = {} THEN G
    ELSE LET i == CHOOSE x \in nodes : TRUE
             tmp == successors(G, i)
             G1 == [G EXCEPT !.node_value =
                       [n \in G.nodes |->
                           IF n \in tmp THEN Num(@[i].v * G.value[<<i, n>>].v) ELSE @[n]]]
         IN compute_scaled_nodes(compute_scaled_nodes(G1, tmp), nodes \ {i})

\* The assignments of compute_scaled_nodes(nodes), counted per node in acc,
\* and whether the recursion ends: a chain of calls longer than the number
\* of nodes passes a node twice and never ends.
RECURSIVE scaled_assignments(_, _, _, _)
scaled_assignments(G, nodes, depth, acc) ==
    IF nodes = {} THEN acc
    ELSE IF depth >= Cardinality(G.nodes) THEN [acc EXCEPT !.ends = FALSE]
    ELSE LET i == CHOOSE x \in nodes : TRUE
             tmp == successors(G, i)
             acc1 == [acc EXCEPT !.count = [n \in G.nodes |->
                                               IF n \in tmp THEN @[n] + 1 ELSE @[n]]]
             acc2 == scaled_assignments(G, tmp, depth + 1, acc1)
         IN IF ~acc2.ends THEN acc2
            ELSE scaled_assignments(G, nodes \ {i}, depth, acc2)

ScaleOk == [status |-> "ok", exception |-> ""]
ScaleCallRaised(exc) == [status |-> "raised", exception |-> exc]

ScaleInit ==
    /\ ParamIdle
    /\ FlowIdle
    /\ SolverIdle
    /\ TimeIdle
    /\ LateIdle
    /\ scale_relations \in ScaleRelationLists
    /\ spc = "create"
    /\ scale_graph = NoScaleGraph
    /\ scale_before = NoScaleGraph
    /\ scale_params = create_dictionary
    /\ beginning_values = << >>
    /\ scale_outcome = NoCall

\* graph = create_scales_graph(relations_scale)
CreateScalesGraph ==
    /\ spc = "create"
    /\ LET r == create_scales_graph(case_sensitive, scale_relations)
       IN /\ spc' = IF r.status = "returned" THEN "ready" ELSE "failed"
          /\ scale_graph' = r.graph
          /\ scale_outcome' = [status |-> r.status, exception |-> r.exception]
    /\ UNCHANGED <<scale_relations, scale_before, scale_params, beginning_values>>
    /\ UNCHANGED <<param_vars, flow_vars, solver_vars, time_vars, late_vars>>

\* set_update_scales_graph(graph, params, values).  A recursion that does
\* not end exhausts the stack of the interpreter (RecursionError).  The
\* beginning nodes are
\* visited in the order of a set: when the expression of one of them cannot
\* be evaluated, any of the others may have got its value before.  An edge
\* that still has an "ast" is evaluated into v, the name of its destination,
\* and graph.edges[u, v] is then looked up with the number (KeyError), or
\* v.name is read from None in the message (AttributeError).
SetUpdateScalesGraph(params, values) ==
    /\ spc = "ready"
    /\ LET G == scale_graph
           beginning_interfaces == get_scale_beginning_interfaces(G)
           interfaces_with_value == DOMAIN values
           st == state_update(case_sensitive, create_dictionary, params)
           defined_beginning_interfaces == beginning_interfaces \cap interfaces_with_value
           val == [i \in defined_beginning_interfaces |->
                      evaluate_numeric_expression_with_parameters(case_sensitive,
                                                                  values[i], st).value]
           not_evaluated == {i \in defined_beginning_interfaces : ~truthy(val[i])}
           edges_with_ast == {e \in G.edges : G.ast[e] # NoExpr}
       IN IF following_interfaces(G) \cap interfaces_with_value # {}
          THEN /\ scale_graph' = G
               /\ scale_outcome' = ScaleCallRaised("Exception")
               /\ assignments' = [n \in G.nodes |-> 0]
          ELSE IF not_evaluated # {}
          THEN /\ \E S \in SUBSET (defined_beginning_interfaces \ not_evaluated) :
                      /\ scale_graph' = set_node_values(G, S, val)
                      /\ assignments' = [n \in G.nodes |-> IF n \in S THEN 1 ELSE 0]
               /\ scale_outcome' = ScaleCallRaised("Exception")
          ELSE IF edges_with_ast # {}
          THEN /\ scale_graph' = set_node_values(G, defined_beginning_interfaces, val)
               /\ assignments' = [n \in G.nodes |->
                                      IF n \in defined_beginning_interfaces THEN 1 ELSE 0]
               /\ \E e \in edges_with_ast :
                      scale_outcome' =
                          IF truthy(evaluate_numeric_expression_with_parameters(
                                        case_sensitive, G.ast[e], st).value)
                          THEN ScaleCallRaised("KeyError")
                          ELSE ScaleCallRaised("AttributeError")
          ELSE LET trace == scaled_assignments(
                                G, defined_beginning_interfaces, 0,
                                [ends |-> TRUE,
                                 count |-> [n \in G.nodes |->
                                               IF n \in defined_beginning_interfaces
                                               THEN 1 ELSE 0]])
               IN IF trace.ends
                  THEN /\ scale_graph' = compute_scaled_nodes(
                                  set_node_values(G, defined_beginning_interfaces, val),
                                  defined_beginning_interfaces)
                       /\ scale_outcome' = ScaleOk
                       /\ assignments' = trace.count
                  ELSE /\ scale_graph' = set_node_values(G, defined_beginning_interfaces,
                                                          val)
                       /\ scale_outcome' = ScaleCallRaised("RecursionError")
                       /\ assignments' = trace.count
    /\ scale_before' = scale_graph
    /\ scale_params' = params
    /\ beginning_values' = values
    /\ UNCHANGED <<scale_relations, spc>>
    /\ UNCHANGED <<param_vars, flow_vars, solver_vars, time_vars, rerun_vars,
                   compute_vars, registry_vars>>

ScaleNext ==
    \/ CreateScalesGraph
    \/ \E params \in ScaleParams, values \in BeginningValues :
          SetUpdateScalesGraph(params, values)

ScaleSpec == ScaleInit /\ [][ScaleNext]_vars

-----------------------------------------------------------------------------
(* Claims about the scale graph                                             *)

\* Some interface is the destination of more than one relation of the list.
DuplicateDestination ==
    \E i, j \in 1..Len(scale_relations) :
        i # j /\ scale_relations[i].destination = scale_relations[j].destination

IncomingScales(G, n) == {e \in G.edges : e[2] = n}

\* C12: create_scales_graph fails exactly when some interface is the
\* destination of more than one relation, and in a graph it returns every
\* node has at most one incoming edge.
C12_OneScalePerDestination ==
    spc # "create" =>
        /\ spc = "failed" <=> DuplicateDestination
        /\ spc = "ready" =>
              \A n \in scale_graph.nodes :
                  Cardinality(IncomingScales(scale_graph, n)) <= 1

\* set_update_scales_graph has been called and has ended.
ScaleCalled == spc = "ready" /\ scale_outcome.status \in {"ok", "raised"}

\* C13: when beginning_values holds a node of the graph that has an incoming
\* scale, the call fails and no node value and no edge value has changed.
C13_FollowingValueRejected ==
    (/\ ScaleCalled
     /\ \E n \in DOMAIN beginning_values :
           n \in scale_before.nodes /\ IncomingScales(scale_before, n) # {}) =>
        /\ scale_outcome.status = "raised"
        /\ scale_graph = scale_before

\* C13 happens: B follows A, both were given a value, and the call raised.
C13_Witness ==
    /\ ScaleCalled
    /\ <<"A", "B">> \in scale_before.edges
    /\ {"A", "B"} \subseteq DOMAIN beginning_values
    /\ scale_outcome.status = "raised"

\* The value of an expression under the parameters of the last call.
UnderParams(expression) ==
    evaluate_numeric_expression_with_parameters(
        case_sensitive, expression,
        state_update(case_sensitive, create_dictionary, scale_params)).value

\* The quantity declared for the edge e.
DeclaredQuantity(e) ==
    LET i == CHOOSE k \in 1..Len(scale_relations) :
                 /\ scale_relations[k].origin = e[1]
                 /\ scale_relations[k].destination = e[2]
    IN scale_relations[i].quantity

DefinedBeginnings(G) ==
    {n \in G.nodes : IncomingScales(G, n) = {} /\ n \in DOMAIN beginning_values}

\* Some relation of the list has a weight that is an expression over a
\* parameter.
ParametricScale ==
    \E i \in 1..Len(scale_relations) : scale_relations[i].quantity.type = "str_expr"

\* C14: after a successful call every defined beginning node holds its
\* expression evaluated under params, and for every edge (u, v) whose origin
\* holds a value, value(v) = value(u) * weight(u, v), the weight being the
\* declared expression evaluated under params; and this is so for constant
\* weights and for weights over parameters: relations with such weights and
\* no destination twice give a graph, and a call on it that gives values to
\* beginning nodes only, all expressions evaluating under params, succeeds.
C14_ScaledValues ==
    /\ (ScaleCalled /\ scale_outcome.status = "ok") =>
          /\ \A i \in DefinedBeginnings(scale_graph) :
                scale_graph.node_value[i] = UnderParams(beginning_values[i])
          /\ \A e \in scale_graph.edges :
                ~scale_graph.node_value[e[1]].isNone =>
                    /\ ~scale_graph.node_value[e[2]].isNone
                    /\ ~UnderParams(DeclaredQuantity(e)).isNone
                    /\ scale_graph.node_value[e[2]].v =
                          scale_graph.node_value[e[1]].v * UnderParams(DeclaredQuantity(e)).v
    /\ (spc # "create" /\ ParametricScale /\ ~DuplicateDestination) => spc = "ready"
    /\ (/\ ScaleCalled
        /\ \A n \in DOMAIN beginning_values :
              n \in scale_graph.nodes => IncomingScales(scale_graph, n) = {}
        /\ \A i \in DefinedBeginnings(scale_graph) :
              truthy(UnderParams(beginning_values[i]))
        /\ \A e \in scale_graph.edges : truthy(UnderParams(DeclaredQuantity(e)))) =>
          scale_outcome.status = "ok"

\* The nodes reachable from the beginning nodes the last call defined.
ReachableFromDefined ==
    reached(scale_graph, DefinedBeginnings(scale_graph), Cardinality(scale_graph.nodes))

\* C15: after a call, whatever calls came before, a node holds a value only
\* if the call defined it as a beginning node or it is reachable from one.
C15_NoStaleValues ==
    (ScaleCalled /\ scale_outcome.status = "ok") =>
        \A n \in scale_graph.nodes :
            ~scale_graph.node_value[n].isNone => n \in ReachableFromDefined

-----------------------------------------------------------------------------
(* The solver loop: flow_graph_solver.  Interfaces are the names            *)
(* get_interface_name gives; every processor is an instance.  A time        *)
(* period is written as its year and holds its absolute and its relative    *)
(* observations.                                                            *)

\* Longest list of scenarios and of time periods.
MaxScenarios == 2
MaxPeriods == 2
\* Largest number of combinations compute_param_combinations gives.
MaxCombinations == 2

Relation(u, v, w) == [src |-> u, dst |-> v, weight |-> w]
\* The flow and scale relations the registry may hold.
SolverRelationLists ==
    {<<Relation("A", "B", StrExpr("p1", 2))>>,
     <<Relation("A", "B", NoExpr)>>,
     <<Relation("A", "B", StrNumber(2)), Relation("A", "C", NoExpr)>>,
     <<Relation("A", "B", StrExpr("p1", 2)), Relation("B", "C", NoExpr)>>,
     <<Relation("A", "B", NoExpr), Relation("B", "A", NoExpr)>>}

GlobalParameterLists == {<<[name |-> "p1", default_value |-> StrNumber(5)]>>}
SolverScenarioDicts ==
    {create_dictionary, dict_setitem(FALSE, create_dictionary, "p1", StrNumber(3))}
ScenarioLists == UNION {[1..n -> SolverScenarioDicts] : n \in 1..MaxScenarios}

Observation(f, e) == [factor |-> f, expression |-> e]
\* The observations of one time period.
ObservationLists ==
    {<<Observation("A", FloatLit(3))>>,
     <<Observation("A", Ast("p1", 2))>>,
     <<Observation("A", FloatLit(3)), Observation("B", FloatLit(3)),
       Observation("C", FloatLit(3))>>}
\* The year of the first time period.
FirstYears == {2008, 2010}
\* The relative observations of one time period: the value of the factor
\* is the expression times the value of relative_factor.
RelativeObservation(rf, f, e) == [relative_factor |-> rf, factor |-> f, expression |-> e]
RelativeObservationLists == {<< >>, <<RelativeObservation("A", "D", FloatLit(2))>>}
TimeObservations ==
    UNION {{[i \in 1..n |-> [time |-> first + i - 1, observations |-> f[i],
                             relative |-> r[i]]] :
               f \in [1..n -> ObservationLists], r \in [1..n -> RelativeObservationLists],
               first \in FirstYears} :
           n \in 0..MaxPeriods}

\* ifnull(value, ast) as a weight or an observation keeps it: the number
\* when there is one, the AST otherwise.
ifnull(value, ast) == IF value.isNone THEN ast ELSE FloatLit(value.v)

\* add_edges: relations.add_edge(src_name, dst_name, weight=weight)
RECURSIVE add_edges(_, _)
add_edges(G, edges) ==
    IF edges = << >> THEN G
    ELSE add_edges([nodes |-> G.nodes \cup {edges[1].src, edges[1].dst},
                    edges |-> G.edges \cup {<<edges[1].src, edges[1].dst>>},
                    weight |-> put(G.weight, <<edges[1].src, edges[1].dst>>,
                                   edges[1].weight)],
                   Tail(edges))

\* Lines 542-546: the weights that need no parameter become numbers.
first_pass(cs, G, st) ==
    [G EXCEPT !.weight =
        [e \in G.edges |->
            IF falsy_expression(@[e]) THEN @[e]
            ELSE LET r == evaluate_numeric_expression_with_parameters(cs, @[e], st)
                 IN ifnull(r.value, r.ast)]]

\* The parameters of a returned map, as pairs for State.update().
param_values(map) == [i \in 1..Len(map) |-> [key |-> map[i].key, val |-> map[i].val.value]]

\* Lines 564-573: the observations at interfaces of the graph.
taken_into_account(G, observations) ==
    {i \in 1..Len(observations) : observations[i].factor \in G.nodes}
observed_value(cs, observations, i, st) ==
    evaluate_numeric_expression_with_parameters(cs, observations[i].expression, st).value
\* graph_params after the loop: the last observation of an interface wins.
seed_values(cs, G, observations, st) ==
    LET taken == taken_into_account(G, observations)
        last(n) == CHOOSE i \in taken :
                       /\ observations[i].factor = n
                       /\ \A j \in taken : observations[j].factor = n => j <= i
    IN [n \in {observations[i].factor : i \in taken} |->
           observed_value(cs, observations, last(n), st)]

\* Lines 577-582: one edge relative_factor -> factor per relative
\* observation of the period, added to the graph of relations.
add_relative_edges(G, relative) ==
    add_edges(G, [i \in 1..Len(relative) |->
                     Relation(relative[i].relative_factor, relative[i].factor,
                              relative[i].expression)])

\* Lines 585-592: the value of the weight of e under the scenario.
weight_value(cs, G, e, st) ==
    evaluate_numeric_expression_with_parameters(cs, G.weight[e], st).value
second_pass(cs, G, st) ==
    [G EXCEPT !.weight =
        [e \in G.edges |->
            IF falsy_expression(@[e]) THEN @[e]
            ELSE FloatLit(weight_value(cs, G, e, st).v)]]

\* data["weight"] as a Weight of the flow graph.
as_weight(w) == IF w.type = "None" THEN NoWeight ELSE Frac(w.value, 1)

\* FlowGraph(relations): one add_edge(u, v, data["weight"], None) per edge.
flow_graph_of(G, reverse) ==
    [nodes |-> G.nodes,
     split |-> [n \in G.nodes |-> "None"],
     edges |-> IF reverse THEN {<<e[2], e[1]>> : e \in G.edges} ELSE G.edges,
     weight |-> IF reverse
                THEN [e \in {<<x[2], x[1]>> : x \in G.edges} |-> NoWeight]
                ELSE [e \in G.edges |-> as_weight(G.weight[e])]]

SolverRaised(exc) == [status |-> "raised", exception |-> exc, early |-> FALSE]
SolverReturned(early) == [status |-> "returned", exception |-> "", early |-> early]

SolverInit ==
    /\ ParamIdle
    /\ FlowIdle
    /\ ScaleIdle
    /\ TimeIdle
    /\ LateIdle
    /\ global_parameters \in GlobalParameterLists
    /\ scenarios \in ScenarioLists
    /\ time_observations \in TimeObservations
    /\ declared_relations \in SolverRelationLists
    /\ relations = NoRelations
    /\ spos = "start"
    /\ scenario_idx = 0
    /\ period_idx = 0
    /\ scenario_state = create_dictionary
    /\ graph_params = << >>
    /\ compute_nodes = {}
    /\ combinations_left = 0
    /\ unit_log = << >>
    /\ units_seen = {}
    /\ used_weights = << >>
    /\ resolutions = << >>
    /\ solver_outcome = SolverRunning

\* Lines 519-546: the observations, the graph of relations and the first
\* pass over its weights.
PrepareRelations ==
    /\ spos = "start"
    /\ IF Len(time_observations) = 0
       THEN /\ solver_outcome' = SolverRaised("Exception")
            /\ spos' = "raised"
            /\ UNCHANGED <<relations, scenario_idx>>
       ELSE /\ relations' = first_pass(case_sensitive,
                                       add_edges(NoRelations, declared_relations),
                                       create_dictionary)
            /\ scenario_idx' = 1
            /\ spos' = "scenario"
            /\ UNCHANGED solver_outcome
    /\ UNCHANGED <<global_parameters, scenarios, time_observations, declared_relations,
                   period_idx, scenario_state, graph_params, compute_nodes,
                   combinations_left, unit_log, units_seen, used_weights, resolutions>>
    /\ UNCHANGED <<param_vars, flow_vars, scale_vars, time_vars, late_vars>>

\* Lines 548-554: the next scenario and its parameters; after the last
\* scenario lines 649-679, which return [].
NextScenario ==
    /\ spos = "scenario"
    /\ IF scenario_idx > Len(scenarios)
       THEN /\ solver_outcome' = SolverReturned(FALSE)
            /\ spos' = "returned"
            /\ UNCHANGED <<scenario_state, period_idx, resolutions>>
       ELSE LET r == evaluate_parameters_for_scenario(case_sensitive, global_parameters,
                                                      scenarios[scenario_idx])
            IN /\ resolutions' = Append(resolutions, scenario_idx)
               /\ IF r.status = "raised"
                  THEN /\ solver_outcome' = SolverRaised(r.exception)
                       /\ spos' = "raised"
                       /\ UNCHANGED <<scenario_state, period_idx>>
                  ELSE /\ scenario_state' = state_update(case_sensitive, create_dictionary,
                                                         param_values(r.map))
                       /\ period_idx' = 1
                       /\ spos' = "period"
                       /\ UNCHANGED solver_outcome
    /\ UNCHANGED <<global_parameters, scenarios, time_observations, declared_relations,
                   relations, scenario_idx, graph_params, compute_nodes,
                   combinations_left, unit_log, units_seen, used_weights>>
    /\ UNCHANGED <<param_vars, flow_vars, scale_vars, time_vars, late_vars>>

\* Lines 556-575: the next time period of the scenario and its observed
\* values; after the last period the loop of scenarios goes on.
ResolveObservations ==
    /\ spos = "period"
    /\ IF period_idx > Len(time_observations)
       THEN /\ scenario_idx' = scenario_idx + 1
            /\ spos' = "scenario"
            /\ UNCHANGED <<graph_params, unit_log, solver_outcome>>
       ELSE LET observations == time_observations[period_idx].observations
                taken == taken_into_account(relations, observations)
            IN /\ UNCHANGED scenario_idx
               /\ IF \E i \in taken :
                        ~truthy(observed_value(case_sensitive, observations, i,
                                               scenario_state))
                  THEN /\ solver_outcome' = SolverRaised("Exception")
                       /\ spos' = "raised"
                       /\ UNCHANGED <<graph_params, unit_log>>
                  ELSE /\ graph_params' = seed_values(case_sensitive, relations,
                                                      observations, scenario_state)
                       /\ unit_log' = <<"seeds">>
                       /\ spos' = "weights"
                       /\ UNCHANGED solver_outcome
    /\ UNCHANGED <<global_parameters, scenarios, time_observations, declared_relations,
                   relations, period_idx, scenario_state, compute_nodes,
                   combinations_left, units_seen, used_weights, resolutions>>
    /\ UNCHANGED <<param_vars, flow_vars, scale_vars, time_vars, late_vars>>

\* Lines 577-592: the edges of the relative observations of the period
\* and the second pass over the weights, both in the graph itself.
ResolveWeights ==
    /\ spos = "weights"
    /\ LET G == add_relative_edges(relations, time_observations[period_idx].relative)
       IN IF \E e \in G.edges :
                /\ ~falsy_expression(G.weight[e])
                /\ ~truthy(weight_value(case_sensitive, G, e, scenario_state))
          THEN /\ solver_outcome' = SolverRaised("Exception")
               /\ spos' = "raised"
               /\ relations' = G
               /\ UNCHANGED unit_log
          ELSE /\ relations' = second_pass(case_sensitive, G, scenario_state)
               /\ unit_log' = Append(unit_log, "weights")
               /\ spos' = "flow_graph"
               /\ UNCHANGED solver_outcome
    /\ UNCHANGED <<global_parameters, scenarios, time_observations, declared_relations,
                   scenario_idx, period_idx, scenario_state, graph_params,
                   compute_nodes, combinations_left, units_seen, used_weights,
                   resolutions>>
    /\ UNCHANGED <<param_vars, flow_vars, scale_vars, time_vars, late_vars>>

\* Lines 596-601: for the period 2008 the components are drawn with plt,
\* a name the module does not import (NameError); then FlowGraph(relations).
BuildFlowGraph ==
    /\ spos = "flow_graph"
    /\ IF time_observations[period_idx].time = 2008 /\ relations.nodes # {}
       THEN /\ solver_outcome' = SolverRaised("NameError")
            /\ spos' = "raised"
            /\ UNCHANGED <<unit_log, used_weights>>
            /\ UNCHANGED flow_vars
       ELSE /\ direct_graph' = flow_graph_of(relations, FALSE)
            /\ reverse_graph' = flow_graph_of(relations, TRUE)
            /\ fpc' = "build"
            /\ visited' = {}
            /\ issues' = << >>
            /\ initial_direct' = EmptyGraph
            /\ initial_reverse' = EmptyGraph
            /\ after_direct' = EmptyGraph
            /\ comp_graph' = NoGraph
            /\ used_weights' = put(used_weights, <<scenario_idx, period_idx>>,
                                   relations.weight)
            /\ unit_log' = Append(unit_log, "flow_graph")
            /\ spos' = "completing"
            /\ UNCHANGED solver_outcome
    /\ UNCHANGED <<global_parameters, scenarios, time_observations, declared_relations,
                   relations, scenario_idx, period_idx, scenario_state, graph_params,
                   compute_nodes, combinations_left, units_seen, resolutions>>
    /\ UNCHANGED <<param_vars, scale_vars, time_vars, late_vars>>

\* Line 602: flow_graph.get_computation_graph(), step by step.
CompleteFlowGraph ==
    /\ spos = "completing"
    /\ \/ StartAnalysis
       \/ \E n \in FlowNodes : VisitDirect(n)
       \/ \E n \in FlowNodes : VisitReverse(n)
       \/ ReturnComputationGraph

\* Lines 604-617: comp_graph.nodes fails when no graph was returned; the
\* nodes without a value; when there is none, return [].
ComputeNodes ==
    /\ spos = "completing"
    /\ fpc = "returned"
    /\ IF ~comp_graph.built
       THEN /\ solver_outcome' = SolverRaised("AttributeError")
            /\ spos' = "raised"
            /\ UNCHANGED <<compute_nodes, units_seen, unit_log>>
       ELSE /\ compute_nodes' = {n \in direct_graph.nodes :
                                    ~(n \in DOMAIN graph_params /\ truthy(graph_params[n]))}
            /\ units_seen' = units_seen \cup {<<scenario_idx, period_idx>>}
            /\ unit_log' = Append(unit_log, "completion")
            /\ IF compute_nodes' = {}
               THEN /\ solver_outcome' = SolverReturned(TRUE)
                    /\ spos' = "returned"
               ELSE /\ spos' = "conflicts"
                    /\ UNCHANGED solver_outcome
    /\ UNCHANGED <<global_parameters, scenarios, time_observations, declared_relations,
                   relations, scenario_idx, period_idx, scenario_state, graph_params,
                   combinations_left, used_weights, resolutions>>
    /\ UNCHANGED <<param_vars, flow_vars, scale_vars, time_vars, late_vars>>

\* Line 622: comp_graph.compute_param_conflicts(set(graph_params.keys()))
ComputeParamConflicts ==
    /\ spos = "conflicts"
    /\ unit_log' = Append(unit_log, "conflicts")
    /\ spos' = "combinations"
    /\ UNCHANGED <<global_parameters, scenarios, time_observations, declared_relations,
                   relations, scenario_idx, period_idx, scenario_state, graph_params,
                   compute_nodes, combinations_left, units_seen, used_weights,
                   resolutions, solver_outcome>>
    /\ UNCHANGED <<param_vars, flow_vars, scale_vars, time_vars, late_vars>>

\* Line 627: ComputationGraph.compute_param_combinations(conflicts) gives k
\* combinations.
ComputeParamCombinations(k) ==
    /\ spos = "combinations"
    /\ combinations_left' = k
    /\ unit_log' = Append(unit_log, "combinations")
    /\ spos' = "compute"
    /\ UNCHANGED <<global_parameters, scenarios, time_observations, declared_relations,
                   relations, scenario_idx, period_idx, scenario_state, graph_params,
                   compute_nodes, units_seen, used_weights, resolutions, solver_outcome>>
    /\ UNCHANGED <<param_vars, flow_vars, scale_vars, time_vars, late_vars>>

\* Lines 629-636: comp_graph.compute_values for one combination.
ComputeValues ==
    /\ spos = "compute"
    /\ combinations_left > 0
    /\ combinations_left' = combinations_left - 1
    /\ unit_log' = Append(unit_log, "compute_values")
    /\ UNCHANGED <<global_parameters, scenarios, time_observations, declared_relations,
                   relations, spos, scenario_idx, period_idx, scenario_state,
                   graph_params, compute_nodes, units_seen, used_weights, resolutions,
                   solver_outcome>>
    /\ UNCHANGED <<param_vars, flow_vars, scale_vars, time_vars, late_vars>>

\* The body of the loop of periods has ended: the next period.
EndOfPeriod ==
    /\ spos = "compute"
    /\ combinations_left = 0
    /\ period_idx' = period_idx + 1
    /\ spos' = "period"
    /\ UNCHANGED <<global_parameters, scenarios, time_observations, declared_relations,
                   relations, scenario_idx, scenario_state, graph_params, compute_nodes,
                   combinations_left, unit_log, units_seen, used_weights, resolutions,
                   solver_outcome>>
    /\ UNCHANGED <<param_vars, flow_vars, scale_vars, time_vars, late_vars>>

SolverNext ==
    \/ PrepareRelations
    \/ NextScenario
    \/ ResolveObservations
    \/ ResolveWeights
    \/ BuildFlowGraph
    \/ CompleteFlowGraph
    \/ ComputeNodes
    \/ ComputeParamConflicts
    \/ \E k \in 1..MaxCombinations : ComputeParamCombinations(k)
    \/ ComputeValues
    \/ EndOfPeriod

SolverSpec == SolverInit /\ [][SolverNext]_vars

-----------------------------------------------------------------------------
(* Claims about the solver loop                                             *)

\* The State of scenario s: its resolved parameters.
StateOfScenario(s) ==
    state_update(case_sensitive, create_dictionary,
        param_values(evaluate_parameters_for_scenario(case_sensitive, global_parameters,
                                                      scenarios[s]).map))

\* The edges of the declared flow and scale relations.
DeclaredEdges ==
    {<<declared_relations[i].src, declared_relations[i].dst>> :
        i \in 1..Len(declared_relations)}

\* The weight expression declared for the edge e.
DeclaredWeight(e) ==
    LET i == CHOOSE k \in 1..Len(declared_relations) :
                 /\ declared_relations[k].src = e[1]
                 /\ declared_relations[k].dst = e[2]
                 /\ \A j \in 1..Len(declared_relations) :
                       (declared_relations[j].src = e[1] /\ declared_relations[j].dst = e[2])
                           => j <= k
    IN declared_relations[i].weight

\* The declared weight of e under the parameters of scenario s.
ExpectedWeight(e, s) ==
    IF DeclaredWeight(e) = NoExpr THEN NoExpr
    ELSE FloatLit(evaluate_numeric_expression_with_parameters(
                      case_sensitive, DeclaredWeight(e), StateOfScenario(s)).value.v)

\* C16: the weights the flow graph of the unit (s, t) was built with are the
\* declared weight expressions evaluated under the parameters of scenario s,
\* whatever units were processed before.
C16_WeightsOfTheScenario ==
    \A u \in DOMAIN used_weights :
        \A e \in DOMAIN used_weights[u] \cap DeclaredEdges :
            used_weights[u][e] = ExpectedWeight(e, u[1])

AllUnits == (1..Len(scenarios)) \X (1..Len(time_observations))

\* C17: when flow_graph_solver has returned, the parameters were resolved
\* once for every scenario and every (scenario, period) pair went through
\* the observations, the completion of the flow graph and the computation;
\* a unit where every node has a value does not end the loop.
C17_EveryUnitProcessed ==
    /\ \A i, j \in 1..Len(resolutions) : resolutions[i] = resolutions[j] => i = j
    /\ solver_outcome.status = "returned" =>
          /\ resolutions = [i \in 1..Len(scenarios) |-> i]
          /\ units_seen = AllUnits

\* The place of a step in the order of a unit.
StepRank(step) ==
    CASE step = "seeds" -> 0
      [] step = "weights" -> 0
      [] step = "scales" -> 1
      [] step = "flow_graph" -> 2
      [] step = "completion" -> 3
      [] step = "conflicts" -> 4
      [] step = "combinations" -> 5
      [] step = "compute_values" -> 6

\* C18: within a unit the scale chains are propagated first, then the flow
\* graph is completed and converted, then conflicts, combinations and one
\* compute_values per combination follow, each after the one before.
C18_StepsInOrder ==
    /\ \A i, j \in 1..Len(unit_log) :
          i < j => StepRank(unit_log[i]) <= StepRank(unit_log[j])
    /\ \A i \in 1..Len(unit_log) :
          unit_log[i] = "flow_graph" =>
              \E j \in 1..(i - 1) : unit_log[j] = "scales"
    /\ (spos = "completing" /\ fpc # "returned") =>
          unit_log[Len(unit_log)] = "flow_graph"

-----------------------------------------------------------------------------
(* Time periods: get_observations_by_time and                               *)
(* get_type_from_all_time_periods.  The local dict "observations" is the    *)
(* sequence of its entries in insertion order.                              *)

\* Longest list of observations of the registry.
MaxObservations == 3

\* observation.attributes["time"]: the generic literals, two years, a month
\* and a label that is none of these.
TimeLabels == {"Year", "Month", "2010", "2011", "01-2010", "Q1"}
\* is_year, is_month of the field parsers: YYYY, and mm-YYYY or YYYY-mm.
is_year(time_period) == time_period \in {"2010", "2011"}
is_month(time_period) == time_period \in {"01-2010"}

\* The observations of the registry: the i-th one is identified by i.
QuantitativeObservation ==
    [time : TimeLabels, is_relative : BOOLEAN, value : {FloatLit(3)}]
QuantitativeObservations(n) == [1..n -> QuantitativeObservation]

\* Position of the key time in the dict, 0 when absent.
time_index(d, time) ==
    IF \E i \in 1..Len(d) : d[i].time = time
    THEN CHOOSE i \in 1..Len(d) : d[i].time = time
    ELSE 0

\* list(observations.keys())
time_keys(d) == [i \in 1..Len(d) |-> d[i].time]

\* Lines 346-356: every observation is appended to the list of its time
\* with its value, ifnull(value, ast).
RECURSIVE observations_by_time(_, _, _, _)
observations_by_time(cs, d, obs, k) ==
    IF k > Len(obs) THEN d
    ELSE LET observation == obs[k]
             r == evaluate_numeric_expression_with_parameters(cs, observation.value,
                                                              create_dictionary)
             item == [value |-> ifnull(r.value, r.ast), id |-> k,
                      is_relative |-> observation.is_relative]
             i == time_index(d, observation.time)
             d1 == IF i = 0
                   THEN Append(d, [time |-> observation.time, list |-> <<item>>])
                   ELSE [d EXCEPT ![i].list = Append(@, item)]
         IN observations_by_time(cs, d1, obs, k + 1)

NoType == "None"

\* A variant that looks at the first label only.
get_type_from_first_time_period(time_periods) ==
    LET period == time_periods[1]
    IN IF period = "Year" \/ is_year(period) THEN "Year"
       ELSE IF period = "Month" \/ is_month(period) THEN "Month"
       ELSE NoType

\* get_type_from_all_time_periods(time_periods), for a list that is not
\* empty.
get_type_from_all_time_periods(time_periods) ==
    LET period == time_periods[1]
        period_type == IF period = "Year" \/ is_year(period) THEN "Year"
                       ELSE IF period = "Month" \/ is_month(period) THEN "Month"
                       ELSE NoType
        period_check(time_period) == IF period_type = "Year" THEN is_year(time_period)
                                     ELSE is_month(time_period)
    IN IF period_type = NoType THEN NoType
       ELSE IF \E i \in 1..Len(time_periods) :
                  time_periods[i] # period_type /\ ~period_check(time_periods[i])
       THEN NoType
       ELSE period_type

\* Lines 363-369: the list of the generic period is taken out of the dict
\* and appended to the list of every period that is left.
expand_generic(d, period_type) ==
    LET i == time_index(d, period_type)
    IN IF i = 0 THEN d
       ELSE LET periodic_observations == d[i].list
                rest == SubSeq(d, 1, i - 1) \o SubSeq(d, i + 1, Len(d))
            IN [k \in 1..Len(rest) |->
                   [rest[k] EXCEPT !.list = @ \o periodic_observations]]

\* The items of a list that are relative, or that are not, in order.
RECURSIVE filter_relative(_, _)
filter_relative(list, relative) ==
    IF list = << >> THEN << >>
    ELSE IF list[1].is_relative = relative
    THEN <<list[1]>> \o filter_relative(Tail(list), relative)
    ELSE filter_relative(Tail(list), relative)

\* split_observations_by_relativeness(observations_by_time)
split_observations_by_relativeness(d, relative) ==
    [k \in 1..Len(d) |-> [d[k] EXCEPT !.list = filter_relative(@, relative)]]

TimeRaised(exc) == [TimeRunning EXCEPT !.status = "raised", !.exception = exc]
TimeReturned(d) ==
    [status |-> "returned", exception |-> "",
     absolute |-> split_observations_by_relativeness(d, FALSE),
     relative |-> split_observations_by_relativeness(d, TRUE)]

TimeInit ==
    /\ ParamIdle
    /\ FlowIdle
    /\ ScaleIdle
    /\ SolverIdle
    /\ LateIdle
    /\ \E n \in 0..MaxObservations : prd_observations \in QuantitativeObservations(n)
    /\ tpos = "start"
    /\ obs_by_time = << >>
    /\ time_period_type = NotTyped
    /\ time_outcome = TimeRunning

\* Lines 343-356
CollectObservations ==
    /\ tpos = "start"
    /\ obs_by_time' = observations_by_time(case_sensitive, << >>, prd_observations, 1)
    /\ tpos' = "collected"
    /\ UNCHANGED <<prd_observations, time_period_type, time_outcome>>
    /\ UNCHANGED <<param_vars, flow_vars, scale_vars, solver_vars, late_vars>>

\* Lines 359-360: next(iter([])) raises StopIteration; the assert raises
\* when the type is None.
CheckTimePeriodType ==
    /\ tpos = "collected"
    /\ IF Len(obs_by_time) = 0
       THEN /\ time_outcome' = TimeRaised("StopIteration")
            /\ tpos' = "raised"
            /\ UNCHANGED time_period_type
       ELSE /\ time_period_type' = get_type_from_all_time_periods(time_keys(obs_by_time))
            /\ IF time_period_type' \in {"Year", "Month"}
               THEN tpos' = "typed" /\ UNCHANGED time_outcome
               ELSE tpos' = "raised" /\ time_outcome' = TimeRaised("AssertionError")
    /\ UNCHANGED <<prd_observations, obs_by_time>>
    /\ UNCHANGED <<param_vars, flow_vars, scale_vars, solver_vars, late_vars>>

\* Lines 363-369
ExpandGenericPeriod ==
    /\ tpos = "typed"
    /\ obs_by_time' = expand_generic(obs_by_time, time_period_type)
    /\ tpos' = "expanded"
    /\ UNCHANGED <<prd_observations, time_period_type, time_outcome>>
    /\ UNCHANGED <<param_vars, flow_vars, scale_vars, solver_vars, late_vars>>

\* Line 371
ReturnObservations ==
    /\ tpos = "expanded"
    /\ time_outcome' = TimeReturned(obs_by_time)
    /\ tpos' = "returned"
    /\ UNCHANGED <<prd_observations, obs_by_time, time_period_type>>
    /\ UNCHANGED <<param_vars, flow_vars, scale_vars, solver_vars, late_vars>>

TimeNext ==
    \/ CollectObservations
    \/ CheckTimePeriodType
    \/ ExpandGenericPeriod
    \/ ReturnObservations

TimeSpec == TimeInit /\ [][TimeNext]_vars

-----------------------------------------------------------------------------
(* Claims about the time periods                                            *)

GenericLabels == {"Year", "Month"}

\* The observations of the registry with a generic period, and those of the
\* period t.
GenericObservations ==
    {i \in 1..Len(prd_observations) : prd_observations[i].time \in GenericLabels}
ObservationsAt(t) ==
    {i \in 1..Len(prd_observations) : prd_observations[i].time = t}

\* The periods of the result, and how often the observation i is in the
\* lists the result holds for the k-th of them.
ResultPeriods == {time_outcome.absolute[k].time : k \in 1..Len(time_outcome.absolute)}
Occurrences(k, i) ==
    Cardinality({j \in 1..Len(time_outcome.absolute[k].list) :
                    time_outcome.absolute[k].list[j].id = i})
    + Cardinality({j \in 1..Len(time_outcome.relative[k].list) :
                      time_outcome.relative[k].list[j].id = i})

\* C19: in the result no generic label is a period; the lists of every
\* period hold its own observations and every observation of a generic
\* period exactly once, and nothing else; no generic observation is lost.
C19_GenericPeriodsExpanded ==
    time_outcome.status = "returned" =>
        /\ ResultPeriods \cap GenericLabels = {}
        /\ \A k \in 1..Len(time_outcome.absolute) :
              \A i \in 1..Len(prd_observations) :
                  Occurrences(k, i) =
                      IF i \in GenericObservations
                            \/ i \in ObservationsAt(time_outcome.absolute[k].time)
                      THEN 1 ELSE 0
        /\ \A i \in GenericObservations :
              \E k \in 1..Len(time_outcome.absolute) : Occurrences(k, i) >= 1

\* The labels of the observations.
LabelsUsed == {prd_observations[i].time : i \in 1..Len(prd_observations)}
AllYears == \A t \in LabelsUsed : t = "Year" \/ is_year(t)
AllMonths == \A t \in LabelsUsed : t = "Month" \/ is_month(t)

\* C20: for the labels of the observations, in any order, the type is
\* "Year" exactly when every label is "Year" or a year, "Month" exactly when
\* every label is "Month" or a month, None for every mix and every other
\* label; with None get_observations_by_time raises and returns nothing.
C20_OneGranularity ==
    (time_period_type # NotTyped) =>
        /\ time_period_type = "Year" <=> AllYears
        /\ time_period_type = "Month" <=> AllMonths
        /\ time_period_type \in {"Year", "Month", NoType}
        /\ time_period_type = NoType =>
              /\ tpos = "raised"
              /\ time_outcome.status = "raised"

\* C20 happens: the first label is a year, a later one is a month, and the
\* call has raised.
C20_Witness ==
    /\ Len(prd_observations) >= 2
    /\ is_year(prd_observations[1].time)
    /\ \E i \in 2..Len(prd_observations) : is_month(prd_observations[i].time)
    /\ time_period_type = NoType
    /\ time_outcome.status = "raised"

-----------------------------------------------------------------------------
(* Further claims about the flow graph                                      *)

\* C27: analyze_and_complete only fills in absent weights: a weight that was
\* declared (any number, 0 included) before the call is the same after it,
\* in the direct and in the reverse graph.
C27_DeclaredWeightsKept ==
    Completed =>
        \A pass \in Passes : \A e \in InitialOf(pass).edges :
            ~InitialOf(pass).weight[e].isNone =>
                CurrentOf(pass).weight[e] = InitialOf(pass).weight[e]

\* The nodes of g without a predecessor: with two of them a topological
\* sort may start with either.
Sources(g) == topological_next(g, {})

\* C28: whatever topological order the two passes visit, the completed
\* graphs (all weights, all split flags) are those of one fixed order.
C28_OrderIndependent ==
    /\ (fpc \in {"reverse", "analyzed", "returned"}
        /\ is_directed_acyclic_graph(initial_direct)) =>
            after_direct = complete_pass("direct", initial_direct, initial_reverse,
                                         {}, << >>).graph
    /\ Completed =>
          /\ direct_graph = after_direct
          /\ reverse_graph = complete_pass("reverse", initial_reverse, after_direct,
                                           {}, << >>).graph

\* C28 happens: both passes could start with either of two nodes, and both
\* have inferred a weight.
C28_Witness ==
    /\ Completed
    /\ Cardinality({n \in Sources(initial_direct) : out_edges(initial_direct, n) # {}}) >= 2
    /\ Cardinality({n \in Sources(initial_reverse) : out_edges(initial_reverse, n) # {}}) >= 2
    /\ direct_graph.weight # initial_direct.weight
    /\ reverse_graph.weight # initial_reverse.weight

\* C29: a second call of analyze_and_complete on the completed acyclic
\* graph leaves every direct weight, every reverse weight and every split
\* flag as the first call left them.
C29_SecondRunChangesNothing ==
    run = 2 =>
        /\ direct_graph = first_run.direct
        /\ reverse_graph = first_run.reverse

\* C29 happens: the second call has ended on a graph in which the first
\* call had inferred a weight and found a split node.
C29_Witness ==
    /\ run = 2
    /\ \E i \in 1..Len(first_run.issues) : first_run.issues[i].itype = "INFO"
    /\ \E n \in first_run.direct.nodes : first_run.direct.split[n] = "True"

\* C30: the direct and the reverse graph have the same nodes, (u, v) is an
\* edge of the direct graph exactly when (v, u) is one of the reverse
\* graph, and a computation graph has one edge per such pair, with the
\* direct weight and the reverse weight of the pair.
C30_GraphsMirrored ==
    /\ direct_graph.nodes = reverse_graph.nodes
    /\ \A u, v \in FlowNodes :
          <<u, v>> \in direct_graph.edges <=> <<v, u>> \in reverse_graph.edges
    /\ comp_graph.built =>
          /\ comp_graph.edges = direct_graph.edges
          /\ \A e \in comp_graph.edges :
                /\ comp_graph.weight[e] = direct_graph.weight[e]
                /\ comp_graph.reverse_weight[e] = reverse_graph.weight[<<e[2], e[1]>>]

\* C30 happens: a computation graph of several edges was returned, with an
\* inferred weight in each graph.
C30_Witness ==
    /\ fpc = "returned"
    /\ comp_graph.built
    /\ Cardinality(comp_graph.edges) >= 2
    /\ direct_graph.weight # initial_direct.weight
    /\ reverse_graph.weight # initial_reverse.weight

-----------------------------------------------------------------------------
(* Further claims about the scale graph                                     *)

\* The nodes reached from the nodes S of G along edges, S included.
ScaleReach(G, S) == reached(G, S, Cardinality(G.nodes))
\* The nodes of G on a cycle.
OnScaleCycle(G) == {n \in G.nodes : n \in ScaleReach(G, successors(G, n))}

\* C26: in every graph create_scales_graph returns, cyclic ones included,
\* no node of a cycle is reached from a beginning node; the propagation of
\* every call of set_update_scales_graph ends, and no node is assigned a
\* value more than once in a call.
C26_PropagationTerminates ==
    spc = "ready" =>
        /\ ScaleReach(scale_graph, get_scale_beginning_interfaces(scale_graph))
              \cap OnScaleCycle(scale_graph) = {}
        /\ scale_outcome.exception # "RecursionError"
        /\ \A n \in DOMAIN assignments : assignments[n] <= 1

\* C26 happens: the graph has a cycle and a chain, and a call has given
\* the nodes of the chain their values.
C26_Witness ==
    /\ spc = "ready"
    /\ OnScaleCycle(scale_graph) # {}
    /\ scale_outcome = ScaleOk
    /\ \E n \in DOMAIN assignments :
          /\ ~scale_graph.beginning[n]
          /\ assignments[n] = 1

-----------------------------------------------------------------------------
(* Further claims about the solver loop                                     *)

\* The edges of the relative observations of the period t.
RelativeEdges(t) ==
    {<<time_observations[t].relative[i].relative_factor,
       time_observations[t].relative[i].factor>> :
        i \in 1..Len(time_observations[t].relative)}

\* C25: the flow graph of the unit (s, t) has the declared relations and
\* the edges of the relative observations of the period t, and no other.
C25_RelativeEdgesOfThePeriod ==
    \A unit \in DOMAIN used_weights :
        DOMAIN used_weights[unit] = DeclaredEdges \cup RelativeEdges(unit[2])

-----------------------------------------------------------------------------
(* The computation graph in flow_graph_solver, lines 604-636.               *)
(* ComputationGraph is imported from backend.solving.graph                  *)
(* .computation_graph; its three operations follow section 4.4 of the       *)
(* specification.  The graph is the one get_computation_graph returns for   *)
(* a list of relations: FlowGraph(relations) declares no reverse weight,    *)
(* the analysis infers those it can.  Values are exact fractions.           *)

\* Longest list of relations of a computation graph.
MaxComputeRelations == 2

\* The relations a graph may be built from: chains, a join, a fork, two
\* components.
ComputeRelations ==
    {[u |-> "A", v |-> "B", w |-> Frac(1, 2)], [u |-> "B", v |-> "C", w |-> Frac(2, 1)],
     [u |-> "A", v |-> "C", w |-> Frac(2, 1)], [u |-> "A", v |-> "C", w |-> Frac(1, 2)],
     [u |-> "C", v |-> "D", w |-> Frac(2, 1)], [u |-> "A", v |-> "B", w |-> NoWeight]}

\* The value observed at an interface, when there is one.
ObservedAt(n) ==
    IF n = "A" THEN Frac(10, 1) ELSE IF n = "B" THEN Frac(4, 1)
    ELSE IF n = "C" THEN Frac(6, 1) ELSE Frac(8, 1)

w_mul(a, b) == Frac(a.num * b.num, a.den * b.den)

\* FlowGraph(relations): add_edge(u, v, weight, None) for every relation.
RECURSIVE flow_graph_from(_, _, _)
flow_graph_from(relation_list, d, r) ==
    IF relation_list = << >> THEN [direct |-> d, reverse |-> r]
    ELSE LET e == Head(relation_list)
         IN flow_graph_from(Tail(relation_list),
                            graph_add_edge(d, e.u, e.v, e.w),
                            graph_add_edge(r, e.v, e.u, NoWeight))

\* flow_graph.get_computation_graph() for an acyclic list of relations.
computation_graph_of(relation_list) ==
    LET fg == flow_graph_from(relation_list, EmptyGraph, EmptyGraph)
        d == complete_pass("direct", fg.direct, fg.reverse, {}, << >>).graph
        r == complete_pass("reverse", fg.reverse, d, {}, << >>).graph
    IN create_computation_graph(d, r)

\* comp_graph.nodes
graph_nodes(G) == {e[1] : e \in G.edges} \cup {e[2] : e \in G.edges}

\* The known predecessors of n that carry a value along their edge, and the
\* known successors that carry one against it.
forward_sources(G, vals, n) ==
    {p \in graph_nodes(G) : /\ <<p, n>> \in G.edges
                            /\ ~vals[p].isNone
                            /\ ~G.weight[<<p, n>>].isNone}
backward_sources(G, vals, n) ==
    {x \in graph_nodes(G) : /\ <<n, x>> \in G.edges
                            /\ ~vals[x].isNone
                            /\ ~G.reverse_weight[<<n, x>>].isNone}

\* The predecessors P are siblings under a parent marked split.
split_siblings(G, P) ==
    \E q \in graph_nodes(G) :
        /\ G.direct_split[q] = "True"
        /\ \A x \in P : <<q, x>> \in G.edges

RECURSIVE sum_contributions(_, _, _, _)
sum_contributions(G, vals, n, P) ==
    IF P = {} THEN Zero
    ELSE LET x == CHOOSE y \in P : TRUE
         IN w_add(w_mul(vals[x], G.weight[<<x, n>>]),
                  sum_contributions(G, vals, n, P \ {x}))

\* One pass along the edges in topological order: an unknown node gets the
\* value of its only known predecessor times the forward weight, or the
\* sum of such values when the predecessors are split siblings.
RECURSIVE forward_pass(_, _, _)
forward_pass(G, vals, done) ==
    LET next == {n \in graph_nodes(G) \ done :
                    \A e \in G.edges : e[2] = n => e[1] \in done}
    IN IF next = {} THEN vals
       ELSE LET n == CHOOSE x \in next : TRUE
                P == forward_sources(G, vals, n)
                v == IF vals[n].isNone /\ P # {}
                        /\ (Cardinality(P) = 1 \/ split_siblings(G, P))
                     THEN sum_contributions(G, vals, n, P)
                     ELSE vals[n]
            IN forward_pass(G, [vals EXCEPT ![n] = v], done \cup {n})

\* One pass against the edges: an unknown node gets the value of its only
\* known successor times the reverse weight.
RECURSIVE backward_pass(_, _, _)
backward_pass(G, vals, done) ==
    LET next == {n \in graph_nodes(G) \ done :
                    \A e \in G.edges : e[1] = n => e[2] \in done}
    IN IF next = {} THEN vals
       ELSE LET n == CHOOSE x \in next : TRUE
                S == backward_sources(G, vals, n)
                x == CHOOSE y \in S : TRUE
                v == IF vals[n].isNone /\ Cardinality(S) = 1
                     THEN w_mul(vals[x], G.reverse_weight[<<n, x>>])
                     ELSE vals[n]
            IN backward_pass(G, [vals EXCEPT ![n] = v], done \cup {n})

\* Passes until nothing more becomes known.
RECURSIVE propagate(_, _, _)
propagate(G, vals, rounds) ==
    LET after == backward_pass(G, forward_pass(G, vals, {}), {})
    IN IF after = vals \/ rounds = 0 THEN after
       ELSE propagate(G, after, rounds - 1)

\* The values of all nodes given the known ones.
values_from(G, knowns) ==
    propagate(G, [n \in graph_nodes(G) |->
                     IF n \in DOMAIN knowns THEN knowns[n] ELSE NoWeight],
              Cardinality(graph_nodes(G)))

\* ComputationGraph.compute_values(targets, knowns): the value of every
\* target, None when it is still unknown.
compute_values(G, targets, knowns) ==
    [n \in targets |-> IF n \in graph_nodes(G) THEN values_from(G, knowns)[n]
                       ELSE NoWeight]

\* The nodes that get a value from the known interface k alone.
derived_from(G, k) ==
    {n \in graph_nodes(G) \ {k} : ~values_from(G, (k :> ObservedAt(k)))[n].isNone}

\* Two known interfaces give alternative derivations: one is derived from
\* the other, or both derive a node that cannot hold both contributions.
in_conflict(G, k1, k2) ==
    /\ k1 # k2
    /\ \/ k2 \in derived_from(G, k1)
       \/ k1 \in derived_from(G, k2)
       \/ \E n \in derived_from(G, k1) \cap derived_from(G, k2) :
             \/ values_from(G, (k1 :> ObservedAt(k1)) @@ (k2 :> ObservedAt(k2)))[n].isNone
             \/ values_from(G, (k1 :> ObservedAt(k1)) @@ (k2 :> ObservedAt(k2)))[n]
                    \in {values_from(G, (k1 :> ObservedAt(k1)))[n],
                         values_from(G, (k2 :> ObservedAt(k2)))[n]}

\* ComputationGraph.compute_param_conflicts(params): for every known
\* interface the known interfaces it is in conflict with.
compute_param_conflicts(G, params) ==
    [k \in params \cap graph_nodes(G) |->
        {x \in params \cap graph_nodes(G) : in_conflict(G, k, x)}]

\* ComputationGraph.compute_param_combinations(conflicts): the maximal sets
\* of known interfaces without two in conflict, as a list in a fixed order.
conflict_free(conflicts, S) == \A k \in S : conflicts[k] \cap S = {}
RECURSIVE as_list(_)
as_list(SS) ==
    IF SS = {} THEN << >>
    ELSE LET x == CHOOSE y \in SS : TRUE IN <<x>> \o as_list(SS \ {x})
compute_param_combinations(conflicts) ==
    as_list({S \in SUBSET DOMAIN conflicts :
                /\ conflict_free(conflicts, S)
                /\ \A T \in SUBSET DOMAIN conflicts :
                      (S \subseteq T /\ conflict_free(conflicts, T)) => T = S})

\* The lists of relations a computation graph is built from.
ComputeRelationLists ==
    UNION {[1..n -> ComputeRelations] : n \in 1..MaxComputeRelations}

\* A variant that passes every observed value, whatever the combination.
unfiltered_params(params, combination) == params
\* A variant that passes an observed value to the first call that uses it
\* and to no later one.
filtered_params_once(params, combination) ==
    [k \in {x \in DOMAIN params \cap combination :
               \A i \in 1..Len(cg_calls) : x \notin DOMAIN cg_calls[i].knowns} |->
        params[k]]
\* Line 632: {k: v for k, v in graph_params.items() if k in combination}
filtered_params(params, combination) ==
    [k \in DOMAIN params \cap combination |-> params[k]]

ComputeInit ==
    /\ ParamIdle
    /\ FlowIdle
    /\ ScaleIdle
    /\ SolverIdle
    /\ TimeIdle
    /\ RerunIdle
    /\ ScaleTraceIdle
    /\ RegistryIdle
    /\ \E relation_list \in ComputeRelationLists :
          /\ cg = computation_graph_of(relation_list)
          /\ \E S \in SUBSET graph_nodes(cg) : cg_params = [n \in S |-> ObservedAt(n)]
    /\ cpos = "start"
    /\ cg_nodes = {}
    /\ cg_conflicts = << >>
    /\ cg_combinations = << >>
    /\ cg_calls = << >>
    /\ cg_outcome = "running"

\* Lines 611-617: the nodes without a value; when there is none, return [].
SelectComputeNodes ==
    /\ cpos = "start"
    /\ cg_nodes' = {n \in graph_nodes(cg) :
                       n \notin DOMAIN cg_params \/ ~weight_truthy(cg_params[n])}
    /\ IF cg_nodes' = {}
       THEN cpos' = "returned" /\ cg_outcome' = "nothing to solve"
       ELSE cpos' = "conflicts" /\ UNCHANGED cg_outcome
    /\ UNCHANGED <<cg, cg_params, cg_conflicts, cg_combinations, cg_calls>>
    /\ UNCHANGED <<param_vars, flow_vars, scale_vars, solver_vars, time_vars,
                   rerun_vars, scale_trace_vars, registry_vars>>

\* Line 622: conflicts = comp_graph.compute_param_conflicts(set(graph_params.keys()))
FindParamConflicts ==
    /\ cpos = "conflicts"
    /\ cg_conflicts' = compute_param_conflicts(cg, DOMAIN cg_params)
    /\ cpos' = "combinations"
    /\ UNCHANGED <<cg, cg_params, cg_nodes, cg_combinations, cg_calls, cg_outcome>>
    /\ UNCHANGED <<param_vars, flow_vars, scale_vars, solver_vars, time_vars,
                   rerun_vars, scale_trace_vars, registry_vars>>

\* Line 627: combinations = ComputationGraph.compute_param_combinations(conflicts)
EnumerateCombinations ==
    /\ cpos = "combinations"
    /\ cg_combinations' = compute_param_combinations(cg_conflicts)
    /\ cpos' = "solving"
    /\ UNCHANGED <<cg, cg_params, cg_nodes, cg_conflicts, cg_calls, cg_outcome>>
    /\ UNCHANGED <<param_vars, flow_vars, scale_vars, solver_vars, time_vars,
                   rerun_vars, scale_trace_vars, registry_vars>>

\* Lines 629-636 for the next combination: compute_values(compute_nodes,
\* filtered_params); after the last one the loop ends.
SolveCombination ==
    /\ cpos = "solving"
    /\ IF Len(cg_calls) = Len(cg_combinations)
       THEN /\ cpos' = "returned"
            /\ cg_outcome' = "solved"
            /\ UNCHANGED cg_calls
       ELSE LET combination == cg_combinations[Len(cg_calls) + 1]
                knowns == filtered_params(cg_params, combination)
            IN /\ cg_calls' = Append(cg_calls,
                                     [combination |-> combination,
                                      knowns |-> knowns,
                                      runs |-> <<compute_values(cg, cg_nodes, knowns)>>])
               /\ UNCHANGED <<cpos, cg_outcome>>
    /\ UNCHANGED <<cg, cg_params, cg_nodes, cg_conflicts, cg_combinations>>
    /\ UNCHANGED <<param_vars, flow_vars, scale_vars, solver_vars, time_vars,
                   rerun_vars, scale_trace_vars, registry_vars>>

\* compute_values is run once more for the combination of the i-th call,
\* with the same targets and the same observed values.
RepeatComputeValues(i) ==
    /\ cpos = "returned"
    /\ i \in 1..Len(cg_calls)
    /\ Len(cg_calls[i].runs) = 1
    /\ LET knowns == filtered_params(cg_params, cg_calls[i].combination)
       IN cg_calls' = [cg_calls EXCEPT ![i].runs =
                          Append(@, compute_values(cg, cg_nodes, knowns))]
    /\ UNCHANGED <<cg, cg_params, cpos, cg_nodes, cg_conflicts, cg_combinations,
                   cg_outcome>>
    /\ UNCHANGED <<param_vars, flow_vars, scale_vars, solver_vars, time_vars,
                   rerun_vars, scale_trace_vars, registry_vars>>

ComputeNext ==
    \/ SelectComputeNodes
    \/ FindParamConflicts
    \/ EnumerateCombinations
    \/ SolveCombination
    \/ \E i \in 1..MaxComputeRelations + 2 : RepeatComputeValues(i)

ComputeSpec == ComputeInit /\ [][ComputeNext]_vars

-----------------------------------------------------------------------------
(* Claims about the computation graph                                       *)

\* The nodes connected with n, whatever the direction of the edges.
RECURSIVE Connected(_, _, _)
Connected(G, S, k) ==
    IF k = 0 THEN S
    ELSE LET R == Connected(G, S, k - 1)
         IN R \cup {e[2] : e \in {x \in G.edges : x[1] \in R}}
              \cup {e[1] : e \in {x \in G.edges : x[2] \in R}}
Component(G, n) == Connected(G, {n}, Cardinality(graph_nodes(G)))

\* The number of paths from s to t along edges with a forward weight, and
\* the product of the weights of the path when there is one only.
RECURSIVE PathCount(_, _, _)
PathCount(G, src, t) ==
    IF src = t THEN 1
    ELSE LET P == {x \in graph_nodes(G) :
                      <<x, t>> \in G.edges /\ ~G.weight[<<x, t>>].isNone}
             RECURSIVE total(_)
             total(Q) == IF Q = {} THEN 0
                         ELSE LET x == CHOOSE y \in Q : TRUE
                              IN PathCount(G, src, x) + total(Q \ {x})
         IN total(P)
RECURSIVE PathProduct(_, _, _)
PathProduct(G, src, t) ==
    IF src = t THEN One
    ELSE LET x == CHOOSE y \in graph_nodes(G) :
                      /\ <<y, t>> \in G.edges
                      /\ ~G.weight[<<y, t>>].isNone
                      /\ PathCount(G, src, y) = 1
         IN w_mul(PathProduct(G, src, x), G.weight[<<x, t>>])

AlternativeDerivations(G, k1, k2) ==
    /\ k1 # k2
    /\ \E n \in graph_nodes(G) \ {k1, k2} :
          /\ n \in derived_from(G, k1) \cap derived_from(G, k2)
          /\ ~(/\ <<k1, n>> \in G.edges
               /\ <<k2, n>> \in G.edges
               /\ split_siblings(G, {k1, k2}))

\* What the claim promises about two seeds k1 and k2 once the unit is over.
ConflictHandled(k1, k2) ==
    /\ k1 \in DOMAIN cg_conflicts
    /\ k2 \in cg_conflicts[k1]
    /\ Len(cg_combinations) >= 2
    /\ \A i \in 1..Len(cg_combinations) :
          /\ cg_combinations[i] \subseteq DOMAIN cg_params
          /\ ~({k1, k2} \subseteq cg_combinations[i])
    /\ Len(cg_calls) = Len(cg_combinations)
    /\ \A i \in 1..Len(cg_calls) :
          /\ cg_calls[i].combination = cg_combinations[i]
          /\ DOMAIN cg_calls[i].knowns = DOMAIN cg_params \cap cg_combinations[i]
          /\ \A k \in DOMAIN cg_calls[i].knowns :
                cg_calls[i].knowns[k] = cg_params[k]

\* C22: when two seeds reach the same node through alternative
\* (non-additive) derivations, the conflict is reported, there are at least
\* two combinations, each a subset of the seeds without one side of the
\* conflict, and compute_values is called once per combination with
\* exactly the seed values of that combination.
C22_OneCallPerCombination ==
    cpos = "returned" =>
        \A k1, k2 \in DOMAIN cg_params :
            AlternativeDerivations(cg, k1, k2) => ConflictHandled(k1, k2)

\* The values before the first pass of compute_values.
initial_values(G, knowns) ==
    [n \in graph_nodes(G) |-> IF n \in DOMAIN knowns THEN knowns[n] ELSE NoWeight]

\* Every node known in before has the same value in after.
KeepsKnown(before, after) ==
    \A n \in DOMAIN before : ~before[n].isNone => after[n] = before[n]

-----------------------------------------------------------------------------
(* The registry of observables: musiasem_concepts_helper.py                 *)
(*                                                                          *)
(* A name is a string, modelled as the sequence of its tokens: simple       *)
(* names, "." and ":". The registry keeps (key, value) entries in the order *)
(* of insertion; a key holds the type of the object, a name or the idents   *)
(* of two related objects, and the ident of the object itself. The classes  *)
(* Processor, FactorType, Factor, Observer and the observations are         *)
(* objects with an ident, a name and up to two references.                  *)

MaxRegistryCalls == 3

no_observer_specified == <<"no_observer">>

\* str.split(sep): the pieces between the separators, at least one.
RECURSIVE split_on(_, _)
split_on(str, sep) ==
    IF str = << >> THEN << << >> >>
    ELSE LET rest == split_on(Tail(str), sep)
         IN IF Head(str) = sep THEN << << >> >> \o rest
            ELSE << <<Head(str)>> \o rest[1] >> \o Tail(rest)

\* Lines 14-25: the names that may refer to the same object.
hierarchical_name_variants(h_name) ==
    LET parts == split_on(h_name, ".")
    IN IF Len(parts) > 1 THEN <<h_name, parts[Len(parts)]>> ELSE <<h_name>>

\* Lines 476-495: the processor names and the factor names of a full name.
obtain_name_parts(n) ==
    LET r == split_on(n, ":")
        full_p_name == r[1]
        full_f_name == IF Len(r) > 1 THEN r[2] ELSE << >>
        p_ == split_on(full_p_name, ".")
        f_ == split_on(full_f_name, ".")
    IN [p_names |-> IF Len(p_) = 1 /\ p_[1] = << >> THEN << >> ELSE p_,
        f_names |-> IF Len(f_) = 1 /\ f_[1] = << >> THEN << >> ELSE f_]

\* PartialRetrievalDictionary.get with the type and the name given: the
\* idents of the matches in the order of insertion.
RECURSIVE get_named(_, _, _)
get_named(idx, t, n) ==
    IF idx = << >> THEN << >>
    ELSE IF Head(idx).t = t /\ Head(idx).n = n
         THEN <<Head(idx).i>> \o get_named(Tail(idx), t, n)
         ELSE get_named(Tail(idx), t, n)

\* PartialRetrievalDictionary.get with the type and two related objects.
RECURSIVE get_pair(_, _, _, _)
get_pair(idx, t, a, b) ==
    IF idx = << >> THEN << >>
    ELSE IF Head(idx).t = t /\ Head(idx).a = a /\ Head(idx).b = b
         THEN <<Head(idx).i>> \o get_pair(Tail(idx), t, a, b)
         ELSE get_pair(Tail(idx), t, a, b)

\* A new object, and PartialRetrievalDictionary.put of an entry.
new_object(R, o) == [R EXCEPT !.objs = Append(@, o)]
registry_put(R, e) == [R EXCEPT !.idx = Append(@, e)]

\* An object of two related ones, created and put under its key.
create_object(R, t, name, a, b) ==
    registry_put(new_object(R, [t |-> t, name |-> name, a |-> a, b |-> b]),
                 [t |-> t, n |-> name, i |-> Len(R.objs) + 1, a |-> a, b |-> b])

\* Lines 190-194 and 228-232: the object under each of its name variants.
index_variants(R, t, alts, ident) ==
    IF Len(alts) > 1
    THEN registry_put(registry_put(R, [t |-> t, n |-> alts[1], i |-> ident,
                                       a |-> 0, b |-> 0]),
                      [t |-> t, n |-> alts[2], i |-> ident, a |-> 0, b |-> 0])
    ELSE registry_put(R, [t |-> t, n |-> alts[1], i |-> ident, a |-> 0, b |-> 0])

\* Lines 183-194 and 221-232: a Processor or a FactorType of that name.
create_named(R, t, name, parent) ==
    index_variants(new_object(R, [t |-> t, name |-> name, a |-> parent, b |-> 0]),
                   t, hierarchical_name_variants(name), Len(R.objs) + 1)

\* Lines 138-143, 340-345, 407-412: the observer of that name, created
\* when there is none.
observer_found(R, name, found) ==
    IF found = << >>
    THEN [R |-> create_object(R, "o", name, 0, 0), oer |-> Len(R.objs) + 1]
    ELSE [R |-> R, oer |-> found[1]]
find_or_create_observer(R, name) == observer_found(R, name, get_named(R.idx, "o", name))

\* Lines 178 and 217: acum_name += ("." if acum_name != "" else "") + name
accumulate(acum_name, name) ==
    IF acum_name = << >> THEN name ELSE acum_name \o <<".">> \o name

\* Lines 200-205: the part-of relation of a parent and its child.
part_of(R, parent, p) ==
    IF parent # 0 /\ get_pair(R.idx, "po", parent, p) = << >>
    THEN create_object(R, "po", << >>, parent, p)
    ELSE R

\* Lines 172-207: the lineage of processors, from the i-th name on.
RECURSIVE processor_lineage(_, _, _, _, _)
processor_child(R, p_names, i, acum, parent, p) ==
    processor_lineage([part_of(R, parent, p) EXCEPT !.named = @ \cup {acum}],
                      p_names, i + 1, acum, p)
processor_found(R, p_names, i, acum, parent, found) ==
    IF found = << >>
    THEN processor_child(create_named(R, "p", acum, 0), p_names, i, acum, parent,
                         Len(R.objs) + 1)
    ELSE processor_child(R, p_names, i, acum, parent, found[1])
processor_named(R, p_names, i, acum, parent) ==
    processor_found(R, p_names, i, acum, parent, get_named(R.idx, "p", acum))
processor_lineage(R, p_names, i, acum_name, parent) ==
    IF i > Len(p_names) THEN [R |-> R, p |-> parent]
    ELSE processor_named(R, p_names, i, accumulate(acum_name, p_names[i]), parent)

\* Lines 210-253: the lineage of factor types and, for the last one, the
\* factor of the processor p.
RECURSIVE factor_lineage(_, _, _, _, _, _, _, _)
factor_found(R, f_names, i, acum, p, ft, found) ==
    IF found = << >>
    THEN factor_lineage(create_object(R, "f", acum, p, ft), f_names, i + 1, acum,
                        ft, p, ft, Len(R.objs) + 1)
    ELSE factor_lineage(R, f_names, i + 1, acum, ft, p, ft, found[1])
factor_of_type(R, f_names, i, acum, p, ft, f0) ==
    IF i = Len(f_names) /\ p # 0
    THEN factor_found(R, f_names, i, acum, p, ft, get_pair(R.idx, "f", p, ft))
    ELSE factor_lineage(R, f_names, i + 1, acum, ft, p, ft, f0)
factor_type_found(R, f_names, i, acum, parent, p, f0, found) ==
    IF found = << >>
    THEN factor_of_type(create_named(R, "ft", acum, parent), f_names, i, acum, p,
                        Len(R.objs) + 1, f0)
    ELSE factor_of_type(R, f_names, i, acum, p, found[1], f0)
factor_type_named(R, f_names, i, acum, parent, p, f0) ==
    factor_type_found(R, f_names, i, acum, parent, p, f0, get_named(R.idx, "ft", acum))
factor_lineage(R, f_names, i, acum_name, parent, p, ft0, f0) ==
    IF i > Len(f_names) THEN [R |-> R, p |-> p, ft |-> ft0, f |-> f0]
    ELSE factor_type_named(R, f_names, i, accumulate(acum_name, f_names[i]), parent,
                           p, f0)

\* Lines 97-255, without an alias: the processor, the factor type and the
\* factor of a name, each 0 when there is none.
factors_of_processor(ps, f_names) ==
    factor_lineage(ps.R, f_names, 1, << >>, 0, ps.p, 0, 0)
observable_of_parts(o, parts) ==
    factors_of_processor(processor_lineage(o.R, parts.p_names, 1, << >>, 0),
                         parts.f_names)
find_or_create_observable(R, name, source) ==
    observable_of_parts(find_or_create_observer(R, source), obtain_name_parts(name))

\* Lines 28-94, without a known processor or factor type: the object of a
\* name, 0 when there is none.
first_of(full, short) ==
    IF full # << >> THEN full[1] ELSE IF short # << >> THEN short[1] ELSE 0
first_variant(idx, t, alts) ==
    first_of(get_named(idx, t, alts[1]),
             IF Len(alts) > 1 THEN get_named(idx, t, alts[2]) ELSE << >>)
first_match(idx, t, name) ==
    IF name = << >> THEN 0 ELSE first_variant(idx, t, hierarchical_name_variants(name))
factor_match(idx, p, ft) ==
    IF p # 0 /\ ft # 0 THEN first_of(get_pair(idx, "f", p, ft), << >>) ELSE 0
observable_named(idx, p_name, f_name) ==
    IF f_name = << >> THEN first_match(idx, "p", p_name)
    ELSE IF p_name = << >> THEN first_match(idx, "ft", f_name)
    ELSE factor_match(idx, first_match(idx, "p", p_name), first_match(idx, "ft", f_name))
name_sides(idx, sides) ==
    observable_named(idx, sides[1], IF Len(sides) = 2 THEN sides[2] ELSE << >>)
find_observable_by_name(name, idx) == name_sides(idx, split_on(name, ":"))

\* Lines 384-390.
get_requested_object(p_, ft_, f_) ==
    IF p_ # 0 /\ ft_ = 0 /\ f_ = 0 THEN p_
    ELSE IF p_ = 0 /\ ft_ # 0 /\ f_ = 0 THEN ft_
    ELSE IF p_ # 0 /\ ft_ # 0 /\ f_ # 0 THEN f_
    ELSE 0
requested(found) == get_requested_object(found.p, found.ft, found.f)

is_instance(R, obj, t) == obj # 0 /\ R.objs[obj].t = t

\* Lines 549-642 for the relations of two processors and of two factors.
relation_kind(R, origin, destination, rel_type) ==
    IF /\ rel_type = "pp_undirected_flow"
       /\ is_instance(R, origin, "p")
       /\ is_instance(R, destination, "p")
    THEN "pp"
    ELSE IF /\ rel_type = "ff_directed_flow"
            /\ is_instance(R, origin, "f")
            /\ is_instance(R, destination, "f")
    THEN "ff"
    ELSE "none"
relation_of_kind(R, origin, destination, t) ==
    IF t = "none" \/ get_pair(R.idx, t, origin, destination) # << >> THEN R
    ELSE create_object(R, t, << >>, origin, destination)
find_or_create_relation(R, origin, destination, rel_type) ==
    relation_of_kind(R, origin, destination,
                     relation_kind(R, origin, destination, rel_type))

\* Lines 259-364: the registry after the call, whether it raised, and the
\* factor that got an observation (0 when none did).
count_observation(R, f) ==
    [R EXCEPT !.fobs = put(@, f, IF f \in DOMAIN @ THEN @[f] + 1 ELSE 1)]
append_observation(o, f) ==
    [R |-> count_observation(create_object(o.R, "qq", << >>, f, o.oer), f),
     raised |-> FALSE, f |-> f]
observation_of(found, value) ==
    IF found.f = 0 THEN [R |-> found.R, raised |-> TRUE, f |-> 0]
    ELSE IF value # ""
    THEN append_observation(find_or_create_observer(found.R, no_observer_specified),
                            found.f)
    ELSE [R |-> found.R, raised |-> FALSE, f |-> 0]
create_quantitative_observation(R, factor, value) ==
    observation_of(find_or_create_observable(R, factor, no_observer_specified), value)

\* Lines 452-467: the relation of the origin and the destination.
relation_class_of(R, origin_obj, dst_obj, relation_class) ==
    IF relation_class # "" THEN relation_class
    ELSE IF is_instance(R, origin_obj, "p") /\ is_instance(R, dst_obj, "p")
    THEN "pp_undirected_flow"
    ELSE "ff_directed_flow"
relate(R, origin_obj, dst_obj, relation_class) ==
    [R |-> find_or_create_relation(R, origin_obj, dst_obj,
                                   relation_class_of(R, origin_obj, dst_obj,
                                                     relation_class)),
     raised |-> FALSE]
relate_origin(in_origin, dst_obj, relation_class) ==
    relate(in_origin.R, requested(in_origin), dst_obj, relation_class)
relate_destination(in_destination, origin_obj, relation_class) ==
    relate(in_destination.R, origin_obj, requested(in_destination), relation_class)

\* The name of a factor: the processor's name, ":", the name of the taxon.
factor_name(R, processor, factor) ==
    R.objs[processor].name \o <<":">> \o R.objs[R.objs[factor].b].name

\* Lines 439-451: a factor of the processor at the other end when one end
\* is a processor and the other a factor.
relation_between(R, origin_obj, dst_obj, relation_class) ==
    IF is_instance(R, origin_obj, "p") /\ is_instance(R, dst_obj, "f")
    THEN relate_origin(find_or_create_observable(R, factor_name(R, origin_obj, dst_obj),
                                                 no_observer_specified),
                       dst_obj, relation_class)
    ELSE IF is_instance(R, origin_obj, "f") /\ is_instance(R, dst_obj, "p")
    THEN relate_destination(
             find_or_create_observable(R, factor_name(R, dst_obj, origin_obj),
                                       no_observer_specified),
             origin_obj, relation_class)
    ELSE relate(R, origin_obj, dst_obj, relation_class)
relation_to(d, origin_obj, relation_class) ==
    relation_between(d.R, origin_obj, requested(d), relation_class)

\* Lines 425-437: the destination of a part-of relation is created under
\* the origin when no observable has its name; otherwise the call raises.
part_of_destination(R, origin_obj, dst) ==
    IF find_observable_by_name(dst, R.idx) = 0
    THEN [R |-> find_or_create_observable(R, R.objs[origin_obj].name \o <<".">> \o dst,
                                          no_observer_specified).R,
          raised |-> FALSE]
    ELSE [R |-> R, raised |-> TRUE]

\* Lines 367-469 with one destination given as a string.
relations_of_origin(R, origin_obj, dst, relation_class) ==
    IF is_instance(R, origin_obj, "p") /\ relation_class = "pp_part_of"
    THEN part_of_destination(R, origin_obj, dst)
    ELSE relation_to(find_or_create_observable(R, dst, no_observer_specified),
                     origin_obj, relation_class)
relations_from(org, dst, relation_class) ==
    relations_of_origin(find_or_create_observer(org.R, no_observer_specified).R,
                        requested(org), dst, relation_class)
create_relation_observations(R, origin, dst, relation_class) ==
    relations_from(find_or_create_observable(R, origin, no_observer_specified),
                   dst, relation_class)

\* The names the calls are made with.
ProcessorNames == {<<"P">>, <<"Q">>, <<"P", ".", "Q">>}
FactorTypeNames == {<<"F">>, <<"F", ".", "G">>}
ObservableNames ==
    ProcessorNames
    \cup {<<":">> \o f : f \in FactorTypeNames}
    \cup {n \o <<":">> \o f : n \in ProcessorNames, f \in FactorTypeNames}
FactorNames ==
    {<<"P">>} \cup {n \o <<":">> \o f : n \in ProcessorNames, f \in FactorTypeNames}
Values == {"", "17160"}
Origins == {<<"P">>, <<"P", ":", "F">>}
Destinations == {<<"Q">>, <<"Q", ":", "F">>, <<"P", ".", "Q">>}
RelationClasses == {"", "pp_part_of"}

\* The registry as one record, and its variables after a call.
registry == [idx |-> glb_idx, objs |-> registry_objects,
             fobs |-> factor_observations, named |-> named_processors]
RegistryBecomes(R, raised) ==
    /\ glb_idx' = R.idx
    /\ registry_objects' = R.objs
    /\ factor_observations' = R.fobs
    /\ named_processors' = R.named
    /\ registry_raised' = raised
    /\ registry_calls' = registry_calls + 1
    /\ UNCHANGED <<param_vars, flow_vars, scale_vars, solver_vars, time_vars,
                   rerun_vars, scale_trace_vars, compute_vars>>

RegistryInit ==
    /\ ParamIdle
    /\ FlowIdle
    /\ ExtIdle

\* What a call leaves behind.
QuantitativeObservationMade(res) ==
    /\ RegistryBecomes(res.R, res.raised)
    /\ value_calls' = IF res.f # 0
                      THEN put(value_calls, res.f,
                               IF res.f \in DOMAIN value_calls
                               THEN value_calls[res.f] + 1 ELSE 1)
                      ELSE value_calls
RelationObservationsMade(res) == RegistryBecomes(res.R, res.raised)

FindOrCreateObservable(name) ==
    /\ registry_calls < MaxRegistryCalls
    /\ RegistryBecomes(find_or_create_observable(registry, name,
                                                 no_observer_specified).R, FALSE)
    /\ UNCHANGED value_calls

CreateQuantitativeObservation(factor, value) ==
    /\ registry_calls < MaxRegistryCalls
    /\ QuantitativeObservationMade(create_quantitative_observation(registry, factor,
                                                                   value))

CreateRelationObservations(origin, dst, relation_class) ==
    /\ registry_calls < MaxRegistryCalls
    /\ RelationObservationsMade(create_relation_observations(registry, origin, dst,
                                                             relation_class))
    /\ UNCHANGED value_calls

RegistryNext ==
    \/ \E name \in ObservableNames : FindOrCreateObservable(name)
    \/ \E factor \in FactorNames, value \in Values :
          CreateQuantitativeObservation(factor, value)
    \/ \E origin \in Origins, dst \in Destinations, relation_class \in RelationClasses :
          CreateRelationObservations(origin, dst, relation_class)

RegistrySpec == RegistryInit /\ [][RegistryNext]_vars

\* The processors registered under a name, and the factors of a processor
\* and a factor type.
ProcessorsUnder(n) ==
    {glb_idx[k].i : k \in {j \in 1..Len(glb_idx) :
                              glb_idx[j].t = "p" /\ glb_idx[j].n = n}}
FactorsOf(p, ft) ==
    {k \in 1..Len(registry_objects) :
        /\ registry_objects[k].t = "f"
        /\ registry_objects[k].a = p
        /\ registry_objects[k].b = ft}

====
